---- MODULE Spec2Model ----
(***************************************************************************)
(* CMP (RFC 4210) client session engine against the in-process responder.  *)
(*                                                                         *)
(* Client : crypto/cmp/cmp_ses.c (src/unnamed/part_001): send_receive_check,*)
(*          pollForResponse, sendCertConf, cert_response, CMP_do*Seq.      *)
(* Server : src/crypto/cmp/cmp_server.c (process_request and processors,  *)
(*          OSSL_CMP_mock_server_perform) and, as a second responder, the  *)
(*          callbacks of src/apps/cmp_mock_srv.c driven by the generic     *)
(*          dispatch of spec section 4.5.                                  *)
(*                                                                         *)
(* One exchange is three steps: the client builds and hands a request to   *)
(* the transfer, the responder turns it into a response, and the client    *)
(* checks the response and continues.  Between the last two the transport  *)
(* may alter or lose the response.                                         *)
(***************************************************************************)
EXTENDS Integers, Sequences, FiniteSets, TLC

VARIABLES
    cctx,   \* client context (CMP_CTX)
    ses,    \* position and locals of the running CMP_do*Seq call
    srv,    \* responder context (OSSL_CMP_SRV_CTX / mock_srv_ctx)
    net,    \* request and response in flight in the transfer
    hist    \* observations of the run (messages seen, sleeps, last server call)

vars == <<cctx, ses, srv, net, hist>>

----------------------------------------------------------------------------
\* Bounds of the exploration.

MaxPoll == 4
MaxCheckAfter == 2
MaxTimeout == 3
MaxStatus == 7
MaxSessions == 2
MaxItavs == 2
MaxHdrCalls == 2

----------------------------------------------------------------------------
\* Program constants.

OSSL_CMP_PKISTATUS_accepted == 0
OSSL_CMP_PKISTATUS_grantedWithMods == 1
OSSL_CMP_PKISTATUS_rejection == 2
OSSL_CMP_PKISTATUS_waiting == 3
OSSL_CMP_PKISTATUS_revocationWarning == 4
OSSL_CMP_PKISTATUS_revocationNotification == 5
OSSL_CMP_PKISTATUS_keyUpdateWarning == 6

OSSL_CMP_CERTREQID == 0

\* certReqId of a fresh mock_srv_ctx
\* protocol version number
OSSL_CMP_PVNO == 2

MockInitCertReqId == -1

\* a NULL nonce / transactionID pointer, a status that cannot be read
NoNonce == 0
NoTxid == 0
NoStatus == -1

NoCert == "none"

\* Certificates are known by name; what process_rr compares of them is the
\* issuer and the serial number.  C0 is the certificate the tests enrol and
\* revoke, C1 has another serial number, C2 another issuer.
Certs == {"C0", "C1", "C2"}

Issuer(cert) == IF cert = "C2" THEN "CA1" ELSE "CA0"

Serial(cert) == IF cert = "C1" THEN 2 ELSE 1

CertReqTypes == {"IR", "CR", "KUR", "P10CR"}
CertRepTypes == {"IP", "CP", "KUP"}

----------------------------------------------------------------------------
\* Messages.  One record shape for every body type; fields a body type does
\* not carry keep the values of Blank.

Blank ==
    [type |-> "NONE", transactionID |-> NoTxid, senderNonce |-> NoNonce,
     recipNonce |-> NoNonce, prot |-> "none", implicitConfirm |-> FALSE,
     certReqId |-> OSSL_CMP_CERTREQID, popo |-> "none", status |-> NoStatus,
     failInfo |-> "none", cert |-> NoCert, caPubs |-> <<>>, chain |-> <<>>,
     checkAfter |-> 0, certHash |-> NoCert,
     numStatus |-> 0, issuer |-> "none", serial |-> 0, itavs |-> <<>>]

NoMsg == Blank

\* Result of a processor: the context it leaves, the message it returns
\* (NoMsg for NULL) and the error it raised.
Ret(s, m, e) == [srv |-> s, msg |-> m, err |-> e]

----------------------------------------------------------------------------
\* Message constructors of the responder (cmp_msg.c is not part of the
\* sources; they follow spec sections 4.5 and 6 and the flag comments of
\* the OSSL_cmp_srv_ctx_st structure).

\* rejections go out unprotected when sendUnprotectedErrors is set
RspProt(s, rejecting) ==
    IF s.sendUnprotectedErrors /\ rejecting THEN "none" ELSE "valid"

ossl_cmp_certRep_new(s, bodytype, certReqId, status, failInfo, certOut, chainOut, caPubs, ic) ==
    [Blank EXCEPT !.type = bodytype, !.certReqId = certReqId,
                  !.status = status, !.failInfo = failInfo,
                  !.cert = certOut, !.chain = chainOut, !.caPubs = caPubs,
                  !.implicitConfirm = ic,
                  !.prot = RspProt(s, status = OSSL_CMP_PKISTATUS_rejection)]

ossl_cmp_pollRep_new(s, certReqId, checkAfter) ==
    [Blank EXCEPT !.type = "POLLREP", !.certReqId = certReqId,
                  !.checkAfter = checkAfter, !.prot = "valid"]

ossl_cmp_pkiconf_new(s) ==
    [Blank EXCEPT !.type = "PKICONF", !.prot = "valid"]

ossl_cmp_error_new(s, status, failInfo) ==
    [Blank EXCEPT !.type = "ERROR", !.status = status, !.failInfo = failInfo,
                  !.prot = RspProt(s, TRUE)]

ossl_cmp_rp_new(s, status, failInfo, issuer, serial) ==
    [Blank EXCEPT !.type = "RP", !.status = status, !.failInfo = failInfo,
                  !.issuer = issuer, !.serial = serial,
                  !.prot = RspProt(s, status = OSSL_CMP_PKISTATUS_rejection)]

ossl_cmp_genp_new(s, itavs) ==
    [Blank EXCEPT !.type = "GENP", !.itavs = itavs, !.prot = "valid"]

\* proof of possession: a signature is checked by the crypto seam and taken
\* as good; raVerified is accepted only when the responder allows it
ossl_cmp_verify_popo(certReq, acceptRAVerified) ==
    \/ certReq.popo = "SIGNATURE"
    \/ certReq.popo = "RAVERIFIED" /\ acceptRAVerified

\* hash of a certificate as carried by certConf: collision free
X509_digest(cert) == cert

----------------------------------------------------------------------------
\* Processors of crypto/cmp/cmp_server.c.

CertRepTypeFor(reqType) ==
    CASE reqType \in {"P10CR", "CR"} -> "CP"
      [] reqType = "IR" -> "IP"
      [] reqType = "KUR" -> "KUP"
      [] OTHER -> "NONE"

\* process_cert_request whose waiting answer does not use up a poll
srv_process_cert_request_keeps_pollCount(s, certReq) ==
    LET bodytype == CertRepTypeFor(certReq.type)
        s1 == [s EXCEPT !.certReqId = certReq.certReqId]
    IN  IF s.pollCount > 0 /\ s.certReq = NoMsg THEN
            LET s2 == [s1 EXCEPT !.certReq = certReq]
            IN  Ret(s2, ossl_cmp_certRep_new(s2, bodytype, s2.certReqId,
                            OSSL_CMP_PKISTATUS_waiting, "none",
                            NoCert, <<>>, <<>>, s2.implicitConfirm), "")
        ELSE
            Ret(s1, ossl_cmp_certRep_new(s1, bodytype, s1.certReqId,
                        s.pkiStatusOut, s.failInfoOut,
                        s.certOut, s.chainOut, s.caPubsOut,
                        s1.implicitConfirm), "")

srv_process_cert_request(s, certReq) ==
    LET bodytype == CertRepTypeFor(certReq.type)
        s1 == [s EXCEPT !.certReqId =
                   IF certReq.type = "P10CR" THEN OSSL_CMP_CERTREQID
                   ELSE certReq.certReqId]
    IN  IF certReq = NoMsg THEN Ret(s, NoMsg, "NULL_ARGUMENT")
        ELSE IF bodytype = "NONE" THEN Ret(s, NoMsg, "UNEXPECTED_PKIBODY")
        ELSE IF ~ossl_cmp_verify_popo(certReq, s.acceptRAVerified) THEN
            Ret(s1, ossl_cmp_certRep_new(s1, bodytype, s1.certReqId,
                        OSSL_CMP_PKISTATUS_rejection, "badPOP",
                        NoCert, <<>>, <<>>, s1.implicitConfirm), "")
        ELSE IF s.pollCount > 0 THEN
            LET s2 == [s1 EXCEPT !.pollCount = @ - 1, !.certReq = certReq]
            IN  Ret(s2, ossl_cmp_certRep_new(s2, bodytype, s2.certReqId,
                            OSSL_CMP_PKISTATUS_waiting, "none",
                            NoCert, <<>>, <<>>, s2.implicitConfirm), "")
        ELSE
            LET s2 == IF certReq.implicitConfirm /\ s.grantImplicitConfirm
                      THEN [s1 EXCEPT !.implicitConfirm = TRUE] ELSE s1
            IN  Ret(s2, ossl_cmp_certRep_new(s2, bodytype, s2.certReqId,
                            s.pkiStatusOut, s.failInfoOut,
                            s.certOut, s.chainOut, s.caPubsOut,
                            s2.implicitConfirm), "")

\* process_rr; with certOut unset the code reads the issuer through a NULL
\* pointer, which the step that calls the responder resolves, and the
\* comparison cannot succeed
srv_process_rr(s, req) ==
    IF \/ s.certOut = NoCert
       \/ req.issuer # Issuer(s.certOut)
       \/ req.serial # Serial(s.certOut)
    THEN Ret(s, NoMsg, "REQUEST_NOT_ACCEPTED")
    ELSE Ret(s, ossl_cmp_rp_new(s, s.pkiStatusOut, s.failInfoOut,
                                req.issuer, req.serial), "")

\* process_genm that hands the ITAVs back last one first
srv_process_genm_reversed(s, req) ==
    LET n == Len(req.itavs)
    IN  Ret(s, ossl_cmp_genp_new(s, [i \in 1..n |-> req.itavs[n + 1 - i]]), "")

\* the ITAVs of the request stand in for genm_ITAVs of the context while
\* the GENP is built from it
srv_process_genm(s, req) == Ret(s, ossl_cmp_genp_new(s, req.itavs), "")

\* process_certConf that does not recalculate the hash
srv_process_certConf_no_hash(s, req) ==
    IF req.numStatus = 0 THEN Ret(s, ossl_cmp_pkiconf_new(s), "")
    ELSE IF req.certReqId # s.certReqId THEN Ret(s, NoMsg, "UNEXPECTED_REQUEST_ID")
    ELSE Ret(s, ossl_cmp_pkiconf_new(s), "")

srv_process_certConf(s, req) ==
    IF req.numStatus = 0 THEN Ret(s, ossl_cmp_pkiconf_new(s), "")
    ELSE IF req.certReqId # s.certReqId THEN Ret(s, NoMsg, "UNEXPECTED_REQUEST_ID")
    ELSE IF s.certOut = NoCert THEN Ret(s, NoMsg, "")
    ELSE IF req.certHash # X509_digest(s.certOut) THEN Ret(s, NoMsg, "WRONG_CERT_HASH")
    ELSE Ret(s, ossl_cmp_pkiconf_new(s), "")

\* process_error that answers nothing
srv_process_error_silent(s, req) == Ret(s, NoMsg, "")

srv_process_error(s, req) == Ret(s, ossl_cmp_pkiconf_new(s), "")

\* process_pollReq that never comes back to the retained request
srv_process_pollReq_always_pollRep(s, req) ==
    LET s1 == [s EXCEPT !.pollCount = IF @ > 0 THEN @ - 1 ELSE 0]
    IN  Ret(s1, ossl_cmp_pollRep_new(s1, s1.certReqId, s1.checkAfterTime), "")

\* process_pollReq that answers a pollRep when it retains no request
srv_process_pollReq_unretained(s, req) ==
    IF s.certReq = NoMsg THEN
        Ret(s, ossl_cmp_pollRep_new(s, s.certReqId, s.checkAfterTime), "")
    ELSE IF s.pollCount = 0 THEN
        LET r == srv_process_cert_request(s, s.certReq)
        IN  IF r.msg = NoMsg THEN Ret(r.srv, NoMsg, "ERROR_PROCESSING_CERTREQ") ELSE r
    ELSE
        LET s1 == [s EXCEPT !.pollCount = @ - 1]
        IN  Ret(s1, ossl_cmp_pollRep_new(s1, s1.certReqId, s1.checkAfterTime), "")

srv_process_pollReq(s, req) ==
    IF s.certReq = NoMsg THEN Ret(s, NoMsg, "")
    ELSE IF s.pollCount = 0 THEN
        LET r == srv_process_cert_request(s, s.certReq)
        IN  IF r.msg = NoMsg THEN Ret(r.srv, NoMsg, "ERROR_PROCESSING_CERTREQ") ELSE r
    ELSE
        LET s1 == [s EXCEPT !.pollCount = @ - 1]
        IN  Ret(s1, ossl_cmp_pollRep_new(s1, s1.certReqId, s1.checkAfterTime), "")

\* unprotected_exception that lets every ERROR message in
unprotected_exception_any_error(s, req, invalid_protection, accept_unprotected_requests) ==
    \/ accept_unprotected_requests
    \/ req.type = "ERROR"

unprotected_exception(s, req, invalid_protection, accept_unprotected_requests) ==
    \/ accept_unprotected_requests
    \/ req.type = "ERROR" /\ s.unprotectedErrors

\* ossl_cmp_msg_check_received (cmp_vfy.c, not part of the sources): the
\* mirror of the client check of spec section 4.2
ossl_cmp_msg_check_received(s, req) ==
    \/ req.prot = "valid"
    \/ unprotected_exception(s, req, req.prot = "invalid", s.acceptUnprotectedRequests)

process_request(s, req) ==
    IF ~ossl_cmp_msg_check_received(s, req) THEN
        Ret(s, NoMsg, "FAILED_TO_RECEIVE_PKIMESSAGE")
    ELSE IF s.sendError THEN
        Ret(s, ossl_cmp_error_new(s, s.pkiStatusOut, s.failInfoOut), "")
    ELSE IF req.type \in CertReqTypes THEN srv_process_cert_request(s, req)
    ELSE IF req.type = "POLLREQ" THEN srv_process_pollReq(s, req)
    ELSE IF req.type = "RR" THEN srv_process_rr(s, req)
    ELSE IF req.type = "GENM" THEN srv_process_genm(s, req)
    ELSE IF req.type = "ERROR" THEN srv_process_error(s, req)
    ELSE IF req.type = "CERTCONF" THEN srv_process_certConf(s, req)
    ELSE Ret(s, NoMsg, "UNEXPECTED_PKIBODY")

----------------------------------------------------------------------------
\* Callbacks of apps/cmp_mock_srv.c.  A callback returns the context it
\* leaves and its out-parameters; si = NoStatus stands for a NULL status.

CbRet(s, si, certOut, chainOut, caPubs, e) ==
    [srv |-> s, si |-> si, certOut |-> certOut, chainOut |-> chainOut,
     caPubs |-> caPubs, err |-> e]

mock_process_cert_request(s, cert_req, certReqId) ==
    IF s.sendError THEN CbRet(s, NoStatus, NoCert, <<>>, <<>>, "ERROR_PROCESSING_MSG")
    ELSE
        LET s1 == [s EXCEPT !.certReqId = certReqId]
        IN  IF s1.pollCount > 0 THEN
                LET s2 == [s1 EXCEPT !.pollCount = @ - 1, !.certReq = cert_req]
                IN  IF s2.certOut = NoCert   \* X509_dup(ctx->certOut) is NULL
                    THEN CbRet(s2, NoStatus, NoCert, <<>>, <<>>, "")
                    ELSE CbRet(s2, OSSL_CMP_PKISTATUS_waiting, NoCert, <<>>, <<>>, "")
            ELSE
                IF s1.certOut = NoCert
                THEN CbRet(s1, NoStatus, NoCert, <<>>, <<>>, "")
                ELSE CbRet(s1, s1.pkiStatusOut, s1.certOut, s1.chainOut, s1.caPubsOut, "")

mock_process_certConf(s, certConf, certReqId, certHash) ==
    IF s.sendError THEN [ok |-> FALSE, err |-> "ERROR_PROCESSING_MSG"]
    ELSE IF certReqId # s.certReqId THEN [ok |-> FALSE, err |-> "UNEXPECTED_REQUEST_ID"]
    ELSE IF s.certOut = NoCert THEN [ok |-> FALSE, err |-> ""]
    ELSE IF certHash # X509_digest(s.certOut) THEN [ok |-> FALSE, err |-> "WRONG_CERT_HASH"]
    ELSE [ok |-> TRUE, err |-> ""]

mock_process_rr(s, rr, issuer, serial) ==
    IF s.sendError THEN [si |-> NoStatus, failInfo |-> "none", err |-> "ERROR_PROCESSING_MSG"]
    ELSE IF \/ s.certOut = NoCert
            \/ issuer # Issuer(s.certOut)
            \/ serial # Serial(s.certOut)
        THEN [si |-> NoStatus, failInfo |-> "none", err |-> ""]
    ELSE [si |-> s.pkiStatusOut, failInfo |-> s.failInfoOut, err |-> ""]

mock_process_genm(s, genm, in) ==
    IF s.sendError THEN [ok |-> FALSE, out |-> <<>>, err |-> "ERROR_PROCESSING_MSG"]
    ELSE [ok |-> TRUE, out |-> in, err |-> ""]

\* process_error only prints what it is given
mock_process_error(s, error) == s

\* out-parameters: certReq (NoMsg for NULL) and check_after
mock_process_pollReq(s, pollReq, certReqId) ==
    IF s.sendError \/ s.certReq = NoMsg THEN
        [ok |-> FALSE, srv |-> s, certReq |-> NoMsg, check_after |-> 0,
         err |-> "ERROR_PROCESSING_MSG"]
    ELSE IF s.pollCount = 0 THEN
        [ok |-> TRUE, srv |-> s, certReq |-> s.certReq, check_after |-> 0, err |-> ""]
    ELSE
        [ok |-> TRUE, srv |-> [s EXCEPT !.pollCount = @ - 1], certReq |-> NoMsg,
         check_after |-> s.checkAfterTime, err |-> ""]

----------------------------------------------------------------------------
\* Generic engine that drives the callbacks (OSSL_CMP_SRV_process_request is
\* declared in the header but its code is not part of the sources): the
\* dispatch of spec section 4.5.

eng_process_cert_request(s, req) ==
    LET bodytype == CertRepTypeFor(req.type)
        certReqId == IF req.type = "P10CR" THEN OSSL_CMP_CERTREQID ELSE req.certReqId
        ic == req.implicitConfirm /\ s.grantImplicitConfirm
        \* the status handed back is a fresh waiting or a copy of pkiStatusOut
        fi == IF s.pollCount > 0 THEN "none" ELSE s.failInfoOut
    IN  IF ~ossl_cmp_verify_popo(req, s.acceptRAVerified) THEN
            Ret(s, ossl_cmp_certRep_new(s, bodytype, certReqId,
                        OSSL_CMP_PKISTATUS_rejection, "badPOP",
                        NoCert, <<>>, <<>>, FALSE), "")
        ELSE
            LET r == mock_process_cert_request(s, req, certReqId)
            IN  IF r.si = NoStatus THEN Ret(r.srv, NoMsg, r.err)
                ELSE Ret(r.srv, ossl_cmp_certRep_new(r.srv, bodytype, certReqId,
                                    r.si, fi, r.certOut, r.chainOut, r.caPubs,
                                    ic /\ r.certOut # NoCert), "")

eng_process_pollReq(s, req) ==
    LET r == mock_process_pollReq(s, req, req.certReqId)
    IN  IF ~r.ok THEN Ret(r.srv, NoMsg, r.err)
        ELSE IF r.certReq # NoMsg THEN eng_process_cert_request(r.srv, r.certReq)
        ELSE Ret(r.srv, ossl_cmp_pollRep_new(r.srv, req.certReqId, r.check_after), "")

\* a certConf without CertStatus confirms nothing and is acknowledged
eng_process_certConf(s, req) ==
    IF req.numStatus = 0 THEN Ret(s, ossl_cmp_pkiconf_new(s), "")
    ELSE
        LET r == mock_process_certConf(s, req, req.certReqId, req.certHash)
        IN  IF r.ok THEN Ret(s, ossl_cmp_pkiconf_new(s), "") ELSE Ret(s, NoMsg, r.err)

eng_process_rr(s, req) ==
    LET r == mock_process_rr(s, req, req.issuer, req.serial)
    IN  IF r.si = NoStatus THEN Ret(s, NoMsg, r.err)
        ELSE Ret(s, ossl_cmp_rp_new(s, r.si, r.failInfo, req.issuer, req.serial), "")

eng_process_genm(s, req) ==
    LET r == mock_process_genm(s, req, req.itavs)
    IN  IF r.ok THEN Ret(s, ossl_cmp_genp_new(s, r.out), "") ELSE Ret(s, NoMsg, r.err)

eng_process_error(s, req) ==
    Ret(mock_process_error(s, req), ossl_cmp_pkiconf_new(s), "")

eng_process_request(s, req) ==
    IF ~ossl_cmp_msg_check_received(s, req) THEN
        Ret(s, NoMsg, "FAILED_TO_RECEIVE_PKIMESSAGE")
    ELSE IF req.type \in CertReqTypes THEN eng_process_cert_request(s, req)
    ELSE IF req.type = "POLLREQ" THEN eng_process_pollReq(s, req)
    ELSE IF req.type = "RR" THEN eng_process_rr(s, req)
    ELSE IF req.type = "GENM" THEN eng_process_genm(s, req)
    ELSE IF req.type = "ERROR" THEN eng_process_error(s, req)
    ELSE IF req.type = "CERTCONF" THEN eng_process_certConf(s, req)
    ELSE Ret(s, NoMsg, "UNEXPECTED_PKIBODY")

----------------------------------------------------------------------------
\* The transfer into the responder.

\* header of a response that carries a transactionID of the responder's own
Mirrored_own_txid(msg, req, nonce) ==
    [msg EXCEPT !.transactionID = nonce,
                !.recipNonce = req.senderNonce,
                !.senderNonce = nonce]

\* header of a response built from the responder's context after it took
\* the request in: transactionID mirrored, recipNonce from the request's
\* senderNonce, a fresh senderNonce
Mirrored(msg, req, nonce) ==
    [msg EXCEPT !.transactionID = req.transactionID,
                !.recipNonce = req.senderNonce,
                !.senderNonce = nonce]

\* header of a message built from the client's context c
FromClientCtx(msg, c, nonce) ==
    [msg EXCEPT !.transactionID = c.transactionID,
                !.recipNonce = c.recipNonce,
                !.senderNonce = nonce]

\* OSSL_CMP_mock_server_perform: a request the responder cannot process is
\* answered by an ERROR message, which is built from the client's context
OSSL_CMP_mock_server_perform(c, s, req, nonce) ==
    LET r == process_request(s, req)
    IN  IF r.msg # NoMsg THEN [srv |-> r.srv, rsp |-> Mirrored(r.msg, req, nonce), err |-> r.err]
        ELSE
            LET e == [Blank EXCEPT !.type = "ERROR",
                           !.status = OSSL_CMP_PKISTATUS_rejection,
                           !.failInfo = "badRequest",
                           !.prot = IF s.sendUnprotectedErrors \/ c.unprotectedSend
                                    THEN "none" ELSE "invalid"]
            IN  [srv |-> r.srv, rsp |-> FromClientCtx(e, c, nonce), err |-> r.err]

\* the same transfer in front of the generic engine and the mock callbacks
OSSL_CMP_CTX_server_perform(c, s, req, nonce) ==
    LET r == eng_process_request(s, req)
    IN  IF r.msg # NoMsg THEN [srv |-> r.srv, rsp |-> Mirrored(r.msg, req, nonce), err |-> r.err]
        ELSE [srv |-> r.srv,
              rsp |-> Mirrored(ossl_cmp_error_new(s, OSSL_CMP_PKISTATUS_rejection,
                                                  "badRequest"), req, nonce),
              err |-> r.err]

----------------------------------------------------------------------------
\* Client: message builders (cmp_msg.c and cmp_lib.c are not part of the
\* sources; header initialisation follows spec section 4.1 and the checks
\* of test/cmp_hdr_test.c).

\* transactionID of the context after header initialisation: a fresh one
\* if the context has none, otherwise the stored one
HdrTransactionID(c, fresh) ==
    IF c.transactionID = NoTxid THEN fresh ELSE c.transactionID

ossl_cmp_hdr_init(c, msg, nonce, fresh) ==
    [msg EXCEPT !.transactionID = HdrTransactionID(c, fresh),
                !.senderNonce = nonce,
                !.recipNonce = c.recipNonce,
                !.prot = IF c.unprotectedSend THEN "none" ELSE "valid"]

CMP_certreq_new(c, kind, nonce, fresh) ==
    ossl_cmp_hdr_init(c, [Blank EXCEPT !.type = kind,
                                       !.certReqId = OSSL_CMP_CERTREQID,
                                       !.popo = c.popoMethod,
                                       !.implicitConfirm = c.implicitConfirm],
                      nonce, fresh)

\* a pollReq that goes out under the senderNonce of the request before it
CMP_pollReq_new_old_nonce(c, reqId, nonce) ==
    ossl_cmp_hdr_init(c, [Blank EXCEPT !.type = "POLLREQ", !.certReqId = reqId],
                      nonce - 2, nonce)

CMP_pollReq_new(c, reqId, nonce) ==
    ossl_cmp_hdr_init(c, [Blank EXCEPT !.type = "POLLREQ", !.certReqId = reqId],
                      nonce, nonce)

CMP_certConf_new(c, nonce) ==
    ossl_cmp_hdr_init(c, [Blank EXCEPT !.type = "CERTCONF",
                                       !.certReqId = OSSL_CMP_CERTREQID,
                                       !.certHash = X509_digest(c.newClCert),
                                       !.numStatus = 1,
                                       !.status = OSSL_CMP_PKISTATUS_accepted],
                      nonce, nonce)

\* the RR names the issuer and the serial number of oldCert
CMP_rr_new(c, nonce) ==
    ossl_cmp_hdr_init(c, [Blank EXCEPT !.type = "RR",
                                       !.issuer = Issuer(c.oldCert),
                                       !.serial = Serial(c.oldCert)],
                      nonce, nonce)

CMP_genm_new(c, itavs, nonce) ==
    ossl_cmp_hdr_init(c, [Blank EXCEPT !.type = "GENM", !.itavs = itavs],
                      nonce, nonce)

\* the ERROR message of exchange_error (spec section 4.4)
CMP_error_new(c, nonce) ==
    ossl_cmp_hdr_init(c, [Blank EXCEPT !.type = "ERROR",
                                       !.status = OSSL_CMP_PKISTATUS_rejection],
                      nonce, nonce)

\* certificate of the first CertResponse: only a response that grants the
\* request carries one
CMP_CERTREPMESSAGE_get_certificate(c, body) ==
    IF body.status \in {OSSL_CMP_PKISTATUS_accepted, OSSL_CMP_PKISTATUS_grantedWithMods}
    THEN body.cert ELSE NoCert

\* protection check of the crypto seam
CMP_validate_msg(c, rep) == rep.prot = "valid"

----------------------------------------------------------------------------
\* Client: crypto/cmp/cmp_ses.c.

\* response type and "not received" reason of each request sequence
\* (P10CR, which this client file lacks, follows CR as in spec section 4.4)
TypeRepOf(kind) == CertRepTypeFor(kind)

NotReceivedOf(kind) ==
    CASE kind = "IR" -> "IP_NOT_RECEIVED"
      [] kind = "KUR" -> "KUP_NOT_RECEIVED"
      [] OTHER -> "CP_NOT_RECEIVED"

Fail(c, e) == [ok |-> FALSE, ctx |-> c, err |-> e]

\* the exceptions granted whether or not unprotectedErrors is set
UnprotectedException_always(c, rep, type_rep) ==
    \/ rep.type = "ERROR"
    \/ rep.type = "RP" /\ rep.status = OSSL_CMP_PKISTATUS_rejection
    \/ rep.type = "PKICONF"
    \/ /\ rep.type = type_rep
       /\ rep.type \in CertRepTypes
       /\ rep.status = OSSL_CMP_PKISTATUS_rejection

\* the explicitly permitted exceptions for an unprotected response
UnprotectedException(c, rep, type_rep) ==
    /\ c.unprotectedErrors
    /\ \/ rep.type = "ERROR"
       \/ rep.type = "RP" /\ rep.status = OSSL_CMP_PKISTATUS_rejection
       \/ rep.type = "PKICONF"
       \/ /\ rep.type = type_rep
          /\ rep.type \in CertRepTypes
          /\ rep.status = OSSL_CMP_PKISTATUS_rejection

\* send_receive_check without the comparison of the nonces
send_receive_check_no_nonce_check(c, req, rep, type_rep, not_received) ==
    IF rep = NoMsg THEN Fail(c, not_received)
    ELSE IF rep.prot # "none" /\ ~CMP_validate_msg(c, rep)
        THEN Fail(c, "ERROR_VALIDATING_PROTECTION")
    ELSE IF rep.prot = "none" /\ ~UnprotectedException(c, rep, type_rep)
        THEN Fail(c, "ERROR_VALIDATING_PROTECTION")
    ELSE IF /\ c.transactionID # NoTxid
            /\ (rep.transactionID = NoTxid \/ c.transactionID # rep.transactionID)
        THEN Fail(c, "ERROR_TRANSACTIONID_UNMATCHED")
    ELSE IF /\ rep.type # type_rep
            /\ ~(type_rep = "POLLREP" /\ rep.type \in CertRepTypes)
        THEN Fail(c, "PKIBODY_ERROR")
    ELSE [ok |-> TRUE, ctx |-> [c EXCEPT !.recipNonce = rep.senderNonce], err |-> ""]

\* send_receive_check without the comparison of the transactionID
send_receive_check_no_txid_check(c, req, rep, type_rep, not_received) ==
    IF rep = NoMsg THEN Fail(c, not_received)
    ELSE IF rep.prot # "none" /\ ~CMP_validate_msg(c, rep)
        THEN Fail(c, "ERROR_VALIDATING_PROTECTION")
    ELSE IF rep.prot = "none" /\ ~UnprotectedException(c, rep, type_rep)
        THEN Fail(c, "ERROR_VALIDATING_PROTECTION")
    ELSE IF /\ req.senderNonce # NoNonce
            /\ (rep.recipNonce = NoNonce \/ req.senderNonce # rep.recipNonce)
        THEN Fail(c, "ERROR_NONCES_DO_NOT_MATCH")
    ELSE IF /\ rep.type # type_rep
            /\ ~(type_rep = "POLLREP" /\ rep.type \in CertRepTypes)
        THEN Fail(c, "PKIBODY_ERROR")
    ELSE [ok |-> TRUE, ctx |-> [c EXCEPT !.recipNonce = rep.senderNonce], err |-> ""]

\* send_receive_check that leaves the recipNonce of the context alone
send_receive_check_keeps_recipNonce(c, req, rep, type_rep, not_received) ==
    IF rep = NoMsg THEN Fail(c, not_received)
    ELSE IF rep.prot # "none" /\ ~CMP_validate_msg(c, rep)
        THEN Fail(c, "ERROR_VALIDATING_PROTECTION")
    ELSE IF rep.prot = "none" /\ ~UnprotectedException(c, rep, type_rep)
        THEN Fail(c, "ERROR_VALIDATING_PROTECTION")
    ELSE IF /\ req.senderNonce # NoNonce
            /\ (rep.recipNonce = NoNonce \/ req.senderNonce # rep.recipNonce)
        THEN Fail(c, "ERROR_NONCES_DO_NOT_MATCH")
    ELSE IF /\ c.transactionID # NoTxid
            /\ (rep.transactionID = NoTxid \/ c.transactionID # rep.transactionID)
        THEN Fail(c, "ERROR_TRANSACTIONID_UNMATCHED")
    ELSE IF /\ rep.type # type_rep
            /\ ~(type_rep = "POLLREP" /\ rep.type \in CertRepTypes)
        THEN Fail(c, "PKIBODY_ERROR")
    ELSE [ok |-> TRUE, ctx |-> c, err |-> ""]

\* send_receive_check that stores the recipNonce before it checks the response
send_receive_check_stores_early(c, req, rep, type_rep, not_received) ==
    IF rep = NoMsg THEN Fail(c, not_received)
    ELSE
        LET c1 == [c EXCEPT !.recipNonce = rep.senderNonce]
        IN  IF rep.prot # "none" /\ ~CMP_validate_msg(c, rep)
                THEN Fail(c1, "ERROR_VALIDATING_PROTECTION")
            ELSE IF rep.prot = "none" /\ ~UnprotectedException(c, rep, type_rep)
                THEN Fail(c1, "ERROR_VALIDATING_PROTECTION")
            ELSE IF /\ req.senderNonce # NoNonce
                    /\ (rep.recipNonce = NoNonce \/ req.senderNonce # rep.recipNonce)
                THEN Fail(c1, "ERROR_NONCES_DO_NOT_MATCH")
            ELSE IF /\ c.transactionID # NoTxid
                    /\ (rep.transactionID = NoTxid \/ c.transactionID # rep.transactionID)
                THEN Fail(c1, "ERROR_TRANSACTIONID_UNMATCHED")
            ELSE IF /\ rep.type # type_rep
                    /\ ~(type_rep = "POLLREP" /\ rep.type \in CertRepTypes)
                THEN Fail(c1, "PKIBODY_ERROR")
            ELSE [ok |-> TRUE, ctx |-> c1, err |-> ""]

\* req is the request just sent, rep the message the transfer returned
\* (NoMsg when the transfer failed)
send_receive_check(c, req, rep, type_rep, not_received) ==
    IF rep = NoMsg THEN Fail(c, not_received)
    ELSE IF rep.prot # "none" /\ ~CMP_validate_msg(c, rep)
        THEN Fail(c, "ERROR_VALIDATING_PROTECTION")
    ELSE IF rep.prot = "none" /\ ~UnprotectedException(c, rep, type_rep)
        THEN Fail(c, "ERROR_VALIDATING_PROTECTION")
    ELSE IF /\ req.senderNonce # NoNonce
            /\ (rep.recipNonce = NoNonce \/ req.senderNonce # rep.recipNonce)
        THEN Fail(c, "ERROR_NONCES_DO_NOT_MATCH")
    ELSE IF /\ c.transactionID # NoTxid
            /\ (rep.transactionID = NoTxid \/ c.transactionID # rep.transactionID)
        THEN Fail(c, "ERROR_TRANSACTIONID_UNMATCHED")
    ELSE IF /\ rep.type # type_rep
            /\ ~(type_rep = "POLLREP" /\ rep.type \in CertRepTypes)
        THEN Fail(c, "PKIBODY_ERROR")
    ELSE [ok |-> TRUE, ctx |-> [c EXCEPT !.recipNonce = rep.senderNonce], err |-> ""]

\* the budget arithmetic without the cut of the last sleep
pollForResponse_wait_uncut(maxPollTime, maxTimeLeft, checkAfter) ==
    IF maxPollTime # 0 THEN
        IF maxTimeLeft = 0 THEN [go |-> FALSE, left |-> 0, sleep |-> 0]
        ELSE IF maxTimeLeft > checkAfter
            THEN [go |-> TRUE, left |-> maxTimeLeft - checkAfter, sleep |-> checkAfter]
            ELSE [go |-> TRUE, left |-> 0, sleep |-> checkAfter]
    ELSE [go |-> TRUE, left |-> maxTimeLeft, sleep |-> checkAfter]

\* the budget arithmetic that goes on polling once the budget is used up
pollForResponse_wait_no_stop(maxPollTime, maxTimeLeft, checkAfter) ==
    IF maxPollTime # 0 THEN
        IF maxTimeLeft > checkAfter
            THEN [go |-> TRUE, left |-> maxTimeLeft - checkAfter, sleep |-> checkAfter]
            ELSE [go |-> TRUE, left |-> 0, sleep |-> maxTimeLeft]
    ELSE [go |-> TRUE, left |-> maxTimeLeft, sleep |-> checkAfter]

\* the budget arithmetic of one pollRep in pollForResponse: whether polling
\* goes on, the budget left and the time slept
pollForResponse_wait(maxPollTime, maxTimeLeft, checkAfter) ==
    IF maxPollTime # 0 THEN
        IF maxTimeLeft = 0 THEN [go |-> FALSE, left |-> 0, sleep |-> 0]
        ELSE IF maxTimeLeft > checkAfter
            THEN [go |-> TRUE, left |-> maxTimeLeft - checkAfter, sleep |-> checkAfter]
            ELSE [go |-> TRUE, left |-> 0, sleep |-> maxTimeLeft]
    ELSE [go |-> TRUE, left |-> maxTimeLeft, sleep |-> checkAfter]

save_certrep_statusInfo(c, body) ==
    IF body.status # NoStatus
    THEN [c EXCEPT !.lastPKIStatus = body.status, !.failInfoCode = body.failInfo]
    ELSE c

\* cert_response that keeps each certificate of caPubs once
cert_response_tail_caPubs_once(c, resp) ==
    LET cert == CMP_CERTREPMESSAGE_get_certificate(c, resp)
        once == SelectSeq(resp.caPubs, LAMBDA x : x # resp.caPubs[1])
        c1 == [c EXCEPT !.newClCert = cert]
        c2 == [c1 EXCEPT !.caPubs = IF resp.caPubs # <<>>
                                    THEN <<resp.caPubs[1]>> \o once ELSE @,
                         !.extraCertsIn = IF resp.chain # <<>> THEN resp.chain ELSE @]
    IN  IF cert = NoCert THEN [ctx |-> c1, next |-> "fail"]
        ELSE IF ~c2.disableConfirm /\ ~resp.implicitConfirm
            THEN [ctx |-> c2, next |-> "conf"]
            ELSE [ctx |-> c2, next |-> "done"]

\* cert_response that confirms whatever the response header says
cert_response_tail_always_conf(c, resp) ==
    LET cert == CMP_CERTREPMESSAGE_get_certificate(c, resp)
        c1 == [c EXCEPT !.newClCert = cert]
        c2 == [c1 EXCEPT !.caPubs = IF resp.caPubs # <<>> THEN resp.caPubs ELSE @,
                         !.extraCertsIn = IF resp.chain # <<>> THEN resp.chain ELSE @]
    IN  IF cert = NoCert THEN [ctx |-> c1, next |-> "fail"]
        ELSE IF ~c2.disableConfirm
            THEN [ctx |-> c2, next |-> "conf"]
            ELSE [ctx |-> c2, next |-> "done"]

\* cert_response from the extraction of the certificate on: the context it
\* leaves and what follows ("fail", "conf" for sendCertConf, "done")
cert_response_tail(c, resp) ==
    LET cert == CMP_CERTREPMESSAGE_get_certificate(c, resp)
        c1 == [c EXCEPT !.newClCert = cert]
        c2 == [c1 EXCEPT !.caPubs = IF resp.caPubs # <<>> THEN resp.caPubs ELSE @,
                         !.extraCertsIn = IF resp.chain # <<>> THEN resp.chain ELSE @]
    IN  IF cert = NoCert THEN [ctx |-> c1, next |-> "fail"]
        ELSE IF ~c2.disableConfirm /\ ~resp.implicitConfirm
            THEN [ctx |-> c2, next |-> "conf"]
            ELSE [ctx |-> c2, next |-> "done"]

----------------------------------------------------------------------------
\* Configurations: the options of both contexts before a session starts.
\* Fixture is the set-up of test/cmp_client_test.c; each family varies some
\* options around it.

Fixture ==
    [impl |-> "mock", pollCount |-> 0, checkAfterTime |-> 1, maxPollTime |-> 0,
     sendError |-> FALSE, sendUnprotectedErrors |-> FALSE,
     acceptUnprotectedRequests |-> TRUE, acceptRAVerified |-> FALSE,
     grantImplicitConfirm |-> FALSE,
     pkiStatusOut |-> OSSL_CMP_PKISTATUS_accepted, certOut |-> "C0",
     unprotectedSend |-> TRUE, unprotectedErrors |-> TRUE,
     disableConfirm |-> FALSE, implicitConfirm |-> FALSE,
     popoMethod |-> "SIGNATURE",
     oldCert |-> "C0", failInfoOut |-> "none", caPubsOut |-> <<>>,
     newCert |-> NoCert, srvUnprotectedErrors |-> FALSE]

Impls == {"srv", "mock"}

PollConfigs ==
    {[Fixture EXCEPT !.impl = i, !.pollCount = p, !.checkAfterTime = a,
                     !.maxPollTime = t] :
        i \in Impls, p \in 0..MaxPoll, a \in 0..MaxCheckAfter, t \in 0..MaxTimeout}

ProtectionConfigs ==
    {[Fixture EXCEPT !.impl = i, !.pollCount = p, !.unprotectedSend = us,
                     !.acceptUnprotectedRequests = au,
                     !.sendUnprotectedErrors = su, !.unprotectedErrors = ue,
                     !.sendError = se, !.pkiStatusOut = st] :
        i \in Impls, p \in {0, 1}, us \in BOOLEAN, au \in BOOLEAN,
        su \in BOOLEAN, ue \in BOOLEAN, se \in BOOLEAN,
        st \in {OSSL_CMP_PKISTATUS_accepted, OSSL_CMP_PKISTATUS_rejection}}

ConfirmConfigs ==
    {[Fixture EXCEPT !.impl = i, !.pollCount = p, !.disableConfirm = dc,
                     !.implicitConfirm = ic, !.grantImplicitConfirm = g,
                     !.pkiStatusOut = st] :
        i \in Impls, p \in {0, 1}, dc \in BOOLEAN, ic \in BOOLEAN, g \in BOOLEAN,
        st \in {OSSL_CMP_PKISTATUS_accepted, OSSL_CMP_PKISTATUS_grantedWithMods,
                OSSL_CMP_PKISTATUS_waiting}}

RequestConfigs ==
    {[Fixture EXCEPT !.impl = i, !.pollCount = p, !.popoMethod = m,
                     !.acceptRAVerified = ra, !.certOut = co] :
        i \in Impls, p \in {0, 1}, m \in {"SIGNATURE", "RAVERIFIED"},
        ra \in BOOLEAN, co \in {NoCert, "C0"}}

\* revocation: the certificate to revoke, the status the responder hands
\* out (MaxStatus is a value beyond the named ones) and induced errors
RRConfigs ==
    {[Fixture EXCEPT !.impl = i, !.oldCert = oc, !.pkiStatusOut = st,
                     !.failInfoOut = fi, !.sendError = se,
                     !.sendUnprotectedErrors = su] :
        i \in Impls, oc \in Certs, st \in 0..MaxStatus,
        fi \in {"none", "signerNotTrusted"}, se \in BOOLEAN, su \in BOOLEAN}

CaPubsConfigs ==
    {[Fixture EXCEPT !.impl = i, !.pollCount = p, !.caPubsOut = cp] :
        i \in Impls, p \in {0, 1},
        cp \in {<<"Csrv", "Csrv">>, <<"Csrv", "CA0">>, <<"CA0">>}}

\* a context on which newCert was set before any session ran
\* (test_exchange_certConf), in front of either responder
CertConfConfigs ==
    {[Fixture EXCEPT !.impl = i, !.newCert = nc, !.certOut = co,
                     !.unprotectedSend = us, !.sendError = se] :
        i \in Impls, nc \in {NoCert, "C0", "C1"}, co \in {NoCert, "C0"},
        us \in BOOLEAN, se \in BOOLEAN}

\* the options that decide whether the responder takes in a request
\* without valid protection; unprotectedErrors is the option of the
\* responder's own OSSL_CMP_CTX
SrvProtConfigs ==
    {[Fixture EXCEPT !.impl = i, !.pollCount = p, !.unprotectedSend = us,
                     !.acceptUnprotectedRequests = au,
                     !.srvUnprotectedErrors = ue] :
        i \in Impls, p \in {0, 1}, us \in BOOLEAN, au \in BOOLEAN, ue \in BOOLEAN}

Configs ==
    PollConfigs \cup ProtectionConfigs \cup ConfirmConfigs \cup RequestConfigs
        \cup RRConfigs \cup CaPubsConfigs \cup CertConfConfigs
        \cup SrvProtConfigs

\* OSSL_CMP_SRV_CTX_new / ossl_cmp_mock_srv_new followed by the setters
SrvCtxOf(cfg) ==
    [impl |-> cfg.impl,
     pollCount |-> cfg.pollCount, checkAfterTime |-> cfg.checkAfterTime,
     certReq |-> NoMsg,
     certReqId |-> IF cfg.impl = "mock" THEN MockInitCertReqId ELSE OSSL_CMP_CERTREQID,
     certOut |-> cfg.certOut, chainOut |-> <<"CA0">>, caPubsOut |-> cfg.caPubsOut,
     pkiStatusOut |-> cfg.pkiStatusOut, failInfoOut |-> cfg.failInfoOut,
     sendError |-> cfg.sendError,
     sendUnprotectedErrors |-> cfg.sendUnprotectedErrors,
     acceptUnprotectedRequests |-> cfg.acceptUnprotectedRequests,
     acceptRAVerified |-> cfg.acceptRAVerified,
     grantImplicitConfirm |-> cfg.grantImplicitConfirm,
     implicitConfirm |-> FALSE, unprotectedErrors |-> cfg.srvUnprotectedErrors]

\* CMP_CTX_create followed by the option setters
ClientCtxOf(cfg) ==
    [transactionID |-> NoTxid, recipNonce |-> NoNonce,
     maxPollTime |-> cfg.maxPollTime,
     unprotectedSend |-> cfg.unprotectedSend,
     unprotectedErrors |-> cfg.unprotectedErrors,
     disableConfirm |-> cfg.disableConfirm,
     implicitConfirm |-> cfg.implicitConfirm,
     popoMethod |-> cfg.popoMethod, oldCert |-> cfg.oldCert,
     newClCert |-> cfg.newCert, caPubs |-> <<>>, extraCertsIn |-> <<>>,
     lastPKIStatus |-> NoStatus, failInfoCode |-> "none"]

Idle == [req |-> NoMsg, rsp |-> NoMsg, failed |-> FALSE, touched |-> FALSE]

\* no call of the pollCount setter yet
NoSetPoll == [called |-> FALSE, count |-> 0, pre |-> 0, post |-> 0, ok |-> TRUE, err |-> ""]

\* what hist.msgs keeps of a message a party built
Built(party, msg) ==
    [from |-> party, type |-> msg.type, senderNonce |-> msg.senderNonce,
     recipNonce |-> msg.recipNonce, transactionID |-> msg.transactionID]

NoObs == [n |-> 0, req |-> NoMsg, pre |-> SrvCtxOf(Fixture),
          post |-> SrvCtxOf(Fixture), rsp |-> NoMsg, err |-> ""]

NoRcv == [n |-> 0, req |-> NoMsg, rep |-> NoMsg, type_rep |-> "NONE",
          caller |-> "none", ctx |-> ClientCtxOf(Fixture), ok |-> FALSE]

Init ==
    \E cfg \in Configs :
        /\ cctx = ClientCtxOf(cfg)
        /\ srv = SrvCtxOf(cfg)
        /\ ses = [pc |-> "idle", kind |-> "NONE", caller |-> "none",
                  type_rep |-> "NONE", req |-> NoMsg, maxTimeLeft |-> 0,
                  result |-> NoCert, err |-> <<>>, rrResult |-> 0,
                  itavs |-> <<>>]
        /\ net = Idle
        /\ hist = [cfg |-> cfg, nNonce |-> 0, trace |-> <<>>, polls |-> <<>>,
                   tampered |-> FALSE, obs |-> NoObs, rcv |-> NoRcv,
                   validated |-> NoNonce, session |-> 1, msgs |-> <<>>,
                   prevTxid |-> NoTxid, setPoll |-> NoSetPoll]

----------------------------------------------------------------------------
\* Client steps.

Received == IF net.failed THEN NoMsg ELSE net.rsp

RcvdType == IF net.failed THEN "TRANSFER_ERROR" ELSE net.rsp.type

\* what the client observes of the response it is handling
Rcv(ok) ==
    [n |-> hist.rcv.n + 1, req |-> ses.req, rep |-> Received,
     type_rep |-> ses.type_rep, caller |-> ses.caller, ctx |-> cctx, ok |-> ok]

\* the client hands request req to the transfer and waits in send_receive_check
\* of caller ("main", "poll" of pollForResponse, "conf" of sendCertConf);
\* poll is the round of pollForResponse that ends with this request, if any
Send(c, req, caller, type_rep, mtl, poll) ==
    /\ cctx' = [c EXCEPT !.transactionID = req.transactionID]
    /\ ses' = [ses EXCEPT !.pc = "wait", !.caller = caller, !.type_rep = type_rep,
                          !.req = req, !.maxTimeLeft = mtl]
    /\ net' = [Idle EXCEPT !.req = req]
    /\ hist' = [hist EXCEPT !.nNonce = req.senderNonce,
                            !.trace = @ \o <<RcvdType, req.type>>,
                            !.msgs = Append(@, Built("client", req)),
                            !.polls = @ \o poll,
                            !.validated = net.rsp.senderNonce,
                            !.rcv = Rcv(TRUE)]
    /\ UNCHANGED srv

\* the CMP_do*Seq call returns: result is the certificate handed back;
\* validated tells whether the response passed send_receive_check
Return(c, pc, result, errs, poll, validated) ==
    /\ cctx' = c
    /\ ses' = [ses EXCEPT !.pc = pc, !.result = result, !.err = @ \o errs,
                          !.req = NoMsg]
    /\ net' = Idle
    /\ hist' = [hist EXCEPT !.trace = @ \o <<RcvdType>>,
                            !.polls = @ \o poll,
                            !.validated = IF validated THEN net.rsp.senderNonce ELSE @,
                            !.rcv = Rcv(validated)]
    /\ UNCHANGED srv

\* cert_response once the final certificate response resp is at hand
CertResponseTail(c, resp) ==
    LET r == cert_response_tail(c, resp)
    IN  CASE r.next = "fail" ->
                Return(r.ctx, "failed", NoCert, <<"CERTIFICATE_NOT_FOUND">>, <<>>, TRUE)
          [] r.next = "conf" ->
                Send(r.ctx, CMP_certConf_new(r.ctx, hist.nNonce + 1), "conf",
                     "PKICONF", ses.maxTimeLeft, <<>>)
          [] OTHER ->
                Return(r.ctx, "done", r.ctx.newClCert, <<>>, <<>>, TRUE)

\* CMP_doInitialRequestSeq, CMP_doCertificateRequestSeq, CMP_doKeyUpdateRequestSeq
\* up to the transfer of the request
StartSession(kind) ==
    /\ ses.pc = "idle"
    /\ LET n == hist.nNonce + 1
           req == CMP_certreq_new(cctx, kind, n, n)
       IN  /\ cctx' = [cctx EXCEPT !.transactionID = req.transactionID]
           /\ ses' = [ses EXCEPT !.pc = "wait", !.kind = kind, !.caller = "main",
                                 !.type_rep = TypeRepOf(kind), !.req = req]
           /\ net' = [Idle EXCEPT !.req = req]
           /\ hist' = [hist EXCEPT !.nNonce = n, !.trace = <<kind>>,
                                   !.msgs = <<Built("client", req)>>]
    /\ UNCHANGED srv

\* the response to the request: send_receive_check, then cert_response
RecvCertRep ==
    /\ ses.pc = "wait" /\ ses.caller = "main"
    /\ net.failed \/ net.rsp # NoMsg
    /\ LET r == send_receive_check(cctx, ses.req, Received, ses.type_rep,
                                   NotReceivedOf(ses.kind))
           c1 == save_certrep_statusInfo(r.ctx, net.rsp)
       IN  IF ~r.ok THEN
               Return(r.ctx, "failed", NoCert, <<r.err>>, <<>>, FALSE)
           ELSE IF net.rsp.status = OSSL_CMP_PKISTATUS_waiting THEN
               Send(c1, CMP_pollReq_new(c1, 0, hist.nNonce + 1), "poll", "POLLREP",
                    c1.maxPollTime, <<>>)
           ELSE CertResponseTail(c1, net.rsp)

\* one round of the loop of pollForResponse, and what cert_response does
\* when the loop ends
RecvPollRep ==
    /\ ses.pc = "wait" /\ ses.caller = "poll"
    /\ net.failed \/ net.rsp # NoMsg
    /\ LET r == send_receive_check(cctx, ses.req, Received, "POLLREP",
                                   "POLLREP_NOT_RECEIVED")
           w == pollForResponse_wait(cctx.maxPollTime, ses.maxTimeLeft,
                                     net.rsp.checkAfter)
           round == [left |-> ses.maxTimeLeft, checkAfter |-> net.rsp.checkAfter,
                     slept |-> w.sleep,
                     at |-> IF w.go THEN Len(hist.trace) + 2 ELSE 0]
       IN  IF ~r.ok THEN
               Return(r.ctx, "failed", NoCert, <<r.err, NotReceivedOf(ses.kind)>>,
                      <<>>, FALSE)
           ELSE IF net.rsp.type = "POLLREP" THEN
               IF ~w.go THEN
                   Return(r.ctx, "failed", NoCert, <<NotReceivedOf(ses.kind)>>,
                          <<round>>, TRUE)
               ELSE
                   Send(r.ctx, CMP_pollReq_new(r.ctx, 0, hist.nNonce + 1), "poll",
                        "POLLREP", w.left, <<round>>)
           ELSE CertResponseTail(r.ctx, net.rsp)

\* sendCertConf that sends the certConf once more when no PKICONF came
RecvPKIconf_retry ==
    /\ ses.pc = "wait" /\ ses.caller = "conf"
    /\ net.failed \/ net.rsp # NoMsg
    /\ LET r == send_receive_check(cctx, ses.req, Received, "PKICONF",
                                   "PKICONF_NOT_RECEIVED")
           sent == Len(SelectSeq(hist.trace, LAMBDA ty : ty = "CERTCONF"))
       IN  IF ~r.ok /\ sent < 2
           THEN Send(r.ctx, CMP_certConf_new(r.ctx, hist.nNonce + 1), "conf",
                     "PKICONF", ses.maxTimeLeft, <<>>)
           ELSE IF ~r.ok
           THEN Return(r.ctx, "failed", NoCert, <<r.err>>, <<>>, FALSE)
           ELSE Return(r.ctx, "done", r.ctx.newClCert, <<>>, <<>>, TRUE)

\* the response to certConf in sendCertConf
RecvPKIconf ==
    /\ ses.pc = "wait" /\ ses.caller = "conf"
    /\ net.failed \/ net.rsp # NoMsg
    /\ LET r == send_receive_check(cctx, ses.req, Received, "PKICONF",
                                   "PKICONF_NOT_RECEIVED")
       IN  IF ~r.ok
           THEN Return(r.ctx, "failed", NoCert, <<r.err>>, <<>>, FALSE)
           ELSE Return(r.ctx, "done", r.ctx.newClCert, <<>>, <<>>, TRUE)

\* a CMP_do*Seq call other than a certificate request returns with the
\* session record s1
ReturnWith(c, s1, validated) ==
    /\ cctx' = c
    /\ ses' = s1
    /\ net' = Idle
    /\ hist' = [hist EXCEPT !.trace = @ \o <<RcvdType>>,
                            !.validated = IF validated THEN net.rsp.senderNonce ELSE @,
                            !.rcv = Rcv(validated)]
    /\ UNCHANGED srv

\* a request sequence of one exchange starts: RR, GENM or ERROR
StartExchange(req, kind, caller, type_rep) ==
    /\ ses.pc = "idle"
    /\ cctx' = [cctx EXCEPT !.transactionID = req.transactionID]
    /\ ses' = [ses EXCEPT !.pc = "wait", !.kind = kind, !.caller = caller,
                          !.type_rep = type_rep, !.req = req]
    /\ net' = [Idle EXCEPT !.req = req]
    /\ hist' = [hist EXCEPT !.nNonce = req.senderNonce, !.trace = <<kind>>,
                            !.msgs = <<Built("client", req)>>]
    /\ UNCHANGED srv

\* CMP_doRevocationRequestSeq up to the transfer of the RR
StartRR ==
    StartExchange(CMP_rr_new(cctx, hist.nNonce + 1), "RR", "rr", "RP")

\* a switch that tells only whether the revocation went through
RevocationResult_flat(pkiStatus) ==
    IF pkiStatus \in {OSSL_CMP_PKISTATUS_accepted, OSSL_CMP_PKISTATUS_grantedWithMods,
                      OSSL_CMP_PKISTATUS_rejection,
                      OSSL_CMP_PKISTATUS_revocationWarning,
                      OSSL_CMP_PKISTATUS_revocationNotification}
    THEN [result |-> 1, err |-> <<>>]
    ELSE [result |-> 0, err |-> <<"UNKNOWN_PKISTATUS">>]

\* the switch of CMP_doRevocationRequestSeq on the PKIStatus of the RP
RevocationResult(pkiStatus) ==
    IF pkiStatus \in {OSSL_CMP_PKISTATUS_accepted, OSSL_CMP_PKISTATUS_grantedWithMods,
                      OSSL_CMP_PKISTATUS_rejection,
                      OSSL_CMP_PKISTATUS_revocationWarning,
                      OSSL_CMP_PKISTATUS_revocationNotification}
    THEN [result |-> pkiStatus + 1, err |-> <<>>]
    ELSE IF pkiStatus \in {OSSL_CMP_PKISTATUS_waiting, OSSL_CMP_PKISTATUS_keyUpdateWarning}
    THEN [result |-> 0, err |-> <<"UNEXPECTED_PKISTATUS">>]
    ELSE [result |-> 0, err |-> <<"UNKNOWN_PKISTATUS">>]

\* the response to the RR in CMP_doRevocationRequestSeq
RecvRP ==
    /\ ses.pc = "wait" /\ ses.caller = "rr"
    /\ net.failed \/ net.rsp # NoMsg
    /\ LET r == send_receive_check(cctx, ses.req, Received, "RP", "RP_NOT_RECEIVED")
           v == RevocationResult(net.rsp.status)
       IN  IF ~r.ok THEN
               ReturnWith(r.ctx, [ses EXCEPT !.pc = "failed", !.req = NoMsg,
                                             !.err = @ \o <<r.err>>], FALSE)
           ELSE
               ReturnWith(r.ctx, [ses EXCEPT !.pc = IF v.result = 0 THEN "failed"
                                                    ELSE "done",
                                             !.req = NoMsg, !.rrResult = v.result,
                                             !.err = @ \o v.err], TRUE)

\* the ITAV lists a general message is sent with: up to MaxItavs items,
\* repeated items and both orders included
Itavs == {"itavA", "itavB"}

ItavLists == UNION {[1..n -> Itavs] : n \in 0..MaxItavs}

\* CMP_doGeneralMessageSeq up to the transfer of the GENM
StartGENM ==
    \E itavs \in ItavLists :
        StartExchange(CMP_genm_new(cctx, itavs, hist.nNonce + 1), "GENM", "genm", "GENP")

\* the response to the GENM in CMP_doGeneralMessageSeq
RecvGENP ==
    /\ ses.pc = "wait" /\ ses.caller = "genm"
    /\ net.failed \/ net.rsp # NoMsg
    /\ LET r == send_receive_check(cctx, ses.req, Received, "GENP", "GENP_NOT_RECEIVED")
       IN  IF ~r.ok THEN
               ReturnWith(r.ctx, [ses EXCEPT !.pc = "failed", !.req = NoMsg,
                                             !.err = @ \o <<r.err>>], FALSE)
           ELSE
               ReturnWith(r.ctx, [ses EXCEPT !.pc = "done", !.req = NoMsg,
                                             !.itavs = net.rsp.itavs], TRUE)

\* exchange_certConf that hands a certConf to the transfer whether or not
\* the context holds a certificate to confirm
StartCertConf_unguarded ==
    \E fi \in {"none", "addInfoNotAvailable"} :
        LET conf == CMP_certConf_new(cctx, hist.nNonce + 1)
            req == IF fi = "none" THEN conf
                   ELSE [conf EXCEPT !.status = OSSL_CMP_PKISTATUS_rejection,
                                     !.failInfo = fi]
        IN  StartExchange(req, "CERTCONF", "conf", "PKICONF")

\* exchange_certConf (sendCertConf) called on its own, outside a certificate
\* request: CMP_certConf_new builds no certConf for a context without
\* newCert, and then nothing is sent; fi is the fail_info argument
StartCertConf ==
    \E fi \in {"none", "addInfoNotAvailable"} :
        LET conf == CMP_certConf_new(cctx, hist.nNonce + 1)
            req == IF fi = "none" THEN conf
                   ELSE [conf EXCEPT !.status = OSSL_CMP_PKISTATUS_rejection,
                                     !.failInfo = fi]
        IN  IF cctx.newClCert = NoCert THEN
                /\ ses.pc = "idle"
                /\ ses' = [ses EXCEPT !.pc = "failed", !.kind = "CERTCONF",
                                      !.caller = "conf", !.type_rep = "PKICONF",
                                      !.err = @ \o <<"ERROR_CREATING_CERTCONF">>]
                /\ UNCHANGED <<cctx, srv, net, hist>>
            ELSE StartExchange(req, "CERTCONF", "conf", "PKICONF")

\* exchange_error: the client reports an error to the responder
StartError ==
    StartExchange(CMP_error_new(cctx, hist.nNonce + 1), "ERROR", "error", "PKICONF")

\* the acknowledgement of the ERROR message
RecvErrorAck ==
    /\ ses.pc = "wait" /\ ses.caller = "error"
    /\ net.failed \/ net.rsp # NoMsg
    /\ LET r == send_receive_check(cctx, ses.req, Received, "PKICONF",
                                   "PKICONF_NOT_RECEIVED")
       IN  ReturnWith(r.ctx, [ses EXCEPT !.pc = IF r.ok THEN "done" ELSE "failed",
                                         !.req = NoMsg,
                                         !.err = @ \o (IF r.ok THEN <<>> ELSE <<r.err>>)],
                      r.ok)

----------------------------------------------------------------------------
\* Responder steps: the transfer callback takes the request in flight and
\* leaves the response.

Observe(r) ==
    [n |-> hist.obs.n + 1, req |-> net.req, pre |-> srv, post |-> r.srv,
     rsp |-> r.rsp, err |-> r.err]

Respond(r) ==
    /\ srv' = r.srv
    /\ net' = [net EXCEPT !.req = NoMsg, !.rsp = r.rsp]
    /\ hist' = [hist EXCEPT !.nNonce = r.rsp.senderNonce, !.obs = Observe(r),
                            !.msgs = Append(@, Built("responder", r.rsp))]
    /\ UNCHANGED <<cctx, ses>>

\* process_rr is reached with certOut unset: X509_get_issuer_name(NULL)
ReadsNullCertOut(s, req) ==
    /\ req.type = "RR"
    /\ s.certOut = NoCert
    /\ ossl_cmp_msg_check_received(s, req)
    /\ ~s.sendError

\* the responder of crypto/cmp/cmp_server.c
MockServerPerform ==
    /\ net.req # NoMsg
    /\ srv.impl = "srv"
    /\ ~ReadsNullCertOut(srv, net.req)
    /\ Respond(OSSL_CMP_mock_server_perform(cctx, srv, net.req, hist.nNonce + 1))

\* the responder made of the generic engine and apps/cmp_mock_srv.c
ServerPerform ==
    /\ net.req # NoMsg
    /\ srv.impl = "mock"
    /\ ~ReadsNullCertOut(srv, net.req)
    /\ Respond(OSSL_CMP_CTX_server_perform(cctx, srv, net.req, hist.nNonce + 1))

\* OSSL_CMP_SRV_CTX_set_send_error / ossl_cmp_mock_srv_set_send_error called
\* on the responder while a pollReq or a certConf is on its way
SetSendError ==
    /\ net.req # NoMsg
    /\ net.req.type \in {"POLLREQ", "CERTCONF"}
    /\ ~srv.sendError
    /\ srv' = [srv EXCEPT !.sendError = TRUE]
    /\ hist' = [hist EXCEPT !.tampered = TRUE]
    /\ UNCHANGED <<cctx, ses, net>>

\* the read through the NULL certOut is undefined: the process dies, or
\* the read yields a name that does not compare equal and the RR is refused
NullCertOutRead ==
    /\ net.req # NoMsg
    /\ ReadsNullCertOut(srv, net.req)
    /\ \E outcome \in {"abort", "refuse"} :
          IF outcome = "abort" THEN
              /\ ses' = [ses EXCEPT !.pc = "aborted"]
              /\ net' = Idle
              /\ UNCHANGED <<cctx, srv, hist>>
          ELSE
              Respond(IF srv.impl = "srv"
                      THEN OSSL_CMP_mock_server_perform(cctx, srv, net.req, hist.nNonce + 1)
                      ELSE OSSL_CMP_CTX_server_perform(cctx, srv, net.req, hist.nNonce + 1))

\* process_pollReq of cmp_server.c is reached with no retained request
AssertsCertReq(s, req) ==
    /\ req.type = "POLLREQ"
    /\ s.impl = "srv"
    /\ s.certReq = NoMsg
    /\ ossl_cmp_msg_check_received(s, req)
    /\ ~s.sendError

\* ossl_assert(srv_ctx->certReq != NULL) fails: a build with assertions ends
\* the process here; a release build makes process_pollReq return NULL,
\* which is the step MockServerPerform
PollReqAssertFails ==
    /\ net.req # NoMsg
    /\ AssertsCertReq(srv, net.req)
    /\ ses' = [ses EXCEPT !.pc = "aborted"]
    /\ net' = Idle
    /\ UNCHANGED <<cctx, srv, hist>>

----------------------------------------------------------------------------
\* Transport steps: what reaches the client need not be what the responder
\* built.  A value no party generated is the negation of a generated one.

Touch(rsp) ==
    /\ net' = [net EXCEPT !.rsp = rsp, !.touched = TRUE]
    /\ hist' = [hist EXCEPT !.tampered = TRUE]
    /\ UNCHANGED <<cctx, ses, srv>>

Untouched == net.rsp # NoMsg /\ ~net.touched

TamperRecipNonce ==
    /\ Untouched
    /\ \E v \in {NoNonce, 0 - net.rsp.recipNonce} :
          /\ v # net.rsp.recipNonce
          /\ Touch([net.rsp EXCEPT !.recipNonce = v])

TamperTransactionID ==
    /\ Untouched
    /\ \E v \in {NoTxid, 0 - net.rsp.transactionID} :
          /\ v # net.rsp.transactionID
          /\ Touch([net.rsp EXCEPT !.transactionID = v])

TamperProtection ==
    /\ Untouched
    /\ \E p \in {"none", "invalid"} :
          /\ p # net.rsp.prot
          /\ Touch([net.rsp EXCEPT !.prot = p])

\* the protection of a request does not verify at the responder
AlterRequestProtection ==
    /\ net.req # NoMsg
    /\ ~net.touched
    /\ net.req.prot = "valid"
    /\ net' = [net EXCEPT !.req = [net.req EXCEPT !.prot = "invalid"],
                          !.touched = TRUE]
    /\ hist' = [hist EXCEPT !.tampered = TRUE]
    /\ UNCHANGED <<cctx, ses, srv>>

\* a responder that announces another checkAfter than the configured one
AlterCheckAfter ==
    /\ Untouched
    /\ net.rsp.type = "POLLREP"
    /\ \E v \in 0..MaxCheckAfter :
          /\ v # net.rsp.checkAfter
          /\ Touch([net.rsp EXCEPT !.checkAfter = v])

\* a certConf other than the one this client builds reaches the responder:
\* another certReqId, another hash, or no CertStatus at all
AlterCertConf ==
    /\ net.req.type = "CERTCONF"
    /\ ~net.touched
    /\ \E id \in {OSSL_CMP_CERTREQID, OSSL_CMP_CERTREQID + 1},
          h \in {net.req.certHash, X509_digest("C1")}, n \in {0, 1} :
          LET req == [net.req EXCEPT !.certReqId = id, !.certHash = h,
                                     !.numStatus = n]
          IN  /\ req # net.req
              /\ net' = [net EXCEPT !.req = req, !.touched = TRUE]
              /\ hist' = [hist EXCEPT !.tampered = TRUE]
              /\ UNCHANGED <<cctx, ses, srv>>

\* CMP_PKIMESSAGE_http_perform fails: no response reaches the client
TransferError ==
    /\ net.req # NoMsg \/ net.rsp # NoMsg
    /\ ~net.touched
    /\ net' = [Idle EXCEPT !.failed = TRUE, !.touched = TRUE]
    /\ hist' = [hist EXCEPT !.tampered = TRUE]
    /\ UNCHANGED <<cctx, ses, srv>>

----------------------------------------------------------------------------

Next ==
    \/ \E kind \in CertReqTypes : StartSession(kind)
    \/ RecvCertRep
    \/ RecvPollRep
    \/ RecvPKIconf
    \/ StartRR
    \/ RecvRP
    \/ StartGENM
    \/ RecvGENP
    \/ StartError
    \/ RecvErrorAck
    \/ StartCertConf
    \/ MockServerPerform
    \/ ServerPerform
    \/ NullCertOutRead
    \/ PollReqAssertFails
    \/ SetSendError
    \/ TamperRecipNonce
    \/ TamperTransactionID
    \/ TamperProtection
    \/ AlterCheckAfter
    \/ AlterCertConf
    \/ AlterRequestProtection
    \/ TransferError

Spec == Init /\ [][Next]_vars

----------------------------------------------------------------------------
\* Several sessions, one after the other, against one responder context.

SeqConfigs ==
    {[Fixture EXCEPT !.impl = i, !.pollCount = p, !.implicitConfirm = ic,
                     !.grantImplicitConfirm = g] :
        i \in Impls, p \in {0, 1}, ic \in BOOLEAN, g \in BOOLEAN}

InitSeq == Init /\ hist.cfg \in SeqConfigs

\* set_pollCount that stores whatever count it is given
set_pollCount_unchecked(s, count) ==
    [srv |-> [s EXCEPT !.pollCount = count], ok |-> TRUE, err |-> ""]

\* OSSL_CMP_SRV_CTX_set_pollCount and ossl_cmp_mock_srv_set_pollCount
OSSL_CMP_SRV_CTX_set_pollCount(s, count) ==
    IF count < 0 THEN [srv |-> s, ok |-> FALSE, err |-> "INVALID_ARGS"]
    ELSE [srv |-> [s EXCEPT !.pollCount = count], ok |-> TRUE, err |-> ""]

\* the session has returned; a fresh client context starts the next one
\* against the same responder context, on which the pollCount setter was
\* called with count (hist.setPoll keeps that call) and
\* grantImplicitConfirm may have been set anew
NextSession ==
    /\ ses.pc \in {"done", "failed"}
    /\ hist.session < MaxSessions
    /\ \E ic \in BOOLEAN, g \in BOOLEAN, count \in {-1, 0, 1} :
          LET r == OSSL_CMP_SRV_CTX_set_pollCount(srv, count)
              cfg == [hist.cfg EXCEPT !.implicitConfirm = ic,
                                      !.grantImplicitConfirm = g,
                                      !.pollCount = r.srv.pollCount]
          IN  /\ cctx' = ClientCtxOf(cfg)
              /\ srv' = [r.srv EXCEPT !.grantImplicitConfirm = g]
              /\ ses' = [ses EXCEPT !.pc = "idle", !.kind = "NONE",
                                    !.caller = "none", !.type_rep = "NONE",
                                    !.req = NoMsg, !.result = NoCert, !.err = <<>>]
              /\ net' = Idle
              /\ hist' = [hist EXCEPT !.cfg = cfg, !.trace = <<>>, !.polls = <<>>,
                                      !.msgs = <<>>, !.session = @ + 1,
                                      !.prevTxid = cctx.transactionID,
                                      !.setPoll = [called |-> TRUE, count |-> count,
                                                   pre |-> srv.pollCount,
                                                   post |-> r.srv.pollCount,
                                                   ok |-> r.ok, err |-> r.err]]

\* the session has returned; the caller starts the next one on the same
\* client context, as the call left it (hist.prevTxid keeps the
\* transactionID the context holds at that point)
NextSessionSameCtx ==
    /\ ses.pc \in {"done", "failed"}
    /\ hist.session < MaxSessions
    /\ ses' = [ses EXCEPT !.pc = "idle", !.kind = "NONE",
                          !.caller = "none", !.type_rep = "NONE",
                          !.req = NoMsg, !.result = NoCert, !.err = <<>>]
    /\ net' = Idle
    /\ hist' = [hist EXCEPT !.trace = <<>>, !.polls = <<>>, !.msgs = <<>>,
                            !.session = @ + 1,
                            !.prevTxid = cctx.transactionID]
    /\ UNCHANGED <<cctx, srv>>

\* exchange_error called once a CMP_do*Seq call has returned, on the
\* context as that call left it: the ERROR message goes out within the
\* transaction of the context
StartErrorAfter ==
    /\ ses.pc \in {"done", "failed"}
    /\ ses.caller # "error"
    /\ LET req == CMP_error_new(cctx, hist.nNonce + 1)
       IN  /\ cctx' = [cctx EXCEPT !.transactionID = req.transactionID]
           /\ ses' = [ses EXCEPT !.pc = "wait", !.kind = "ERROR",
                                 !.caller = "error", !.type_rep = "PKICONF",
                                 !.req = req]
           /\ net' = [Idle EXCEPT !.req = req]
           /\ hist' = [hist EXCEPT !.nNonce = req.senderNonce,
                                   !.trace = @ \o <<"ERROR">>,
                                   !.msgs = Append(@, Built("client", req))]
    /\ UNCHANGED srv

NextSeq ==
    \/ \E kind \in CertReqTypes : StartSession(kind)
    \/ RecvCertRep
    \/ RecvPollRep
    \/ RecvPKIconf
    \/ StartError
    \/ StartErrorAfter
    \/ RecvErrorAck
    \/ MockServerPerform
    \/ ServerPerform
    \/ NextSession
    \/ NextSessionSameCtx

SpecSeq == InitSeq /\ [][NextSeq]_vars

----------------------------------------------------------------------------
\* Structure of the state.

TypeOK ==
    /\ ses.pc \in {"idle", "wait", "done", "failed", "aborted"}
    /\ srv.pollCount \in 0..MaxPoll
    /\ ses.maxTimeLeft \in 0..MaxTimeout

----------------------------------------------------------------------------
\* Properties of the responder.  hist.obs is the last call of the responder:
\* the request, the context before and after, and the response it built.

\* the request passed the protection check and sendError is off, so that the
\* processor of its body type does its work
Dispatched(o) ==
    /\ o.n > 0
    /\ ossl_cmp_msg_check_received(o.pre, o.req)
    /\ ~o.pre.sendError

\* a certificate request with accepted proof of possession met pollCount > 0
CertReqWhilePolling(o) ==
    /\ Dispatched(o)
    /\ o.req.type \in CertReqTypes
    /\ ossl_cmp_verify_popo(o.req, o.pre.acceptRAVerified)
    /\ o.pre.pollCount > 0

WaitingResponse(o) ==
    /\ o.rsp.type = CertRepTypeFor(o.req.type)
    /\ o.rsp.status = OSSL_CMP_PKISTATUS_waiting
    /\ o.rsp.cert = NoCert
    /\ o.rsp.chain = <<>>
    /\ o.rsp.caPubs = <<>>

\* C1: process_cert_request on an IR/CR/P10CR/KUR with accepted proof of
\* possession and pollCount > 0 decrements pollCount by exactly 1, retains
\* a copy of the request as certReq, and answers with PKIStatus waiting and
\* no certificate, chain or caPubs.
C1_WaitingOnPollCount ==
    CertReqWhilePolling(hist.obs) =>
        /\ hist.obs.post.pollCount = hist.obs.pre.pollCount - 1
        /\ hist.obs.post.certReq = hist.obs.req
        /\ WaitingResponse(hist.obs)

\* the part of C1 that both responders fulfil: the count and the retained
\* request
C1_CountAndRetain ==
    CertReqWhilePolling(hist.obs) =>
        /\ hist.obs.post.pollCount = hist.obs.pre.pollCount - 1
        /\ hist.obs.post.certReq = hist.obs.req
        /\ (hist.obs.pre.certOut # NoCert => WaitingResponse(hist.obs))

C1_Reached ==
    /\ CertReqWhilePolling(hist.obs)
    /\ hist.obs.req.type = "P10CR"
    /\ hist.obs.pre.pollCount > 1
    /\ WaitingResponse(hist.obs)

\* a pollReq reached process_pollReq while a request is retained
PollReqWithRetained(o) ==
    /\ Dispatched(o)
    /\ o.req.type = "POLLREQ"
    /\ o.pre.certReq # NoMsg

\* what process_cert_request of the responder at hand yields for certReq
RerunCertRequest(s, certReq) ==
    IF s.impl = "mock" THEN eng_process_cert_request(s, certReq)
    ELSE srv_process_cert_request(s, certReq)

\* C2: process_pollReq with a retained request: with pollCount = 0 the answer
\* is what re-running process_cert_request on the retained request yields, a
\* certificate response of the retained request's kind, and pollCount stays
\* 0; otherwise pollCount goes down by exactly 1 and the answer is a PollRep
\* with the retained certReqId and checkAfterTime.
C2_PollReqProcessing ==
    PollReqWithRetained(hist.obs) =>
        LET o == hist.obs
            r == RerunCertRequest(o.pre, o.pre.certReq)
        IN  IF o.pre.pollCount = 0 THEN
                /\ o.post = r.srv
                /\ o.post.pollCount = 0
                /\ r.msg # NoMsg =>
                      /\ o.rsp = Mirrored(r.msg, o.req, o.rsp.senderNonce)
                      /\ o.rsp.type = CertRepTypeFor(o.pre.certReq.type)
            ELSE
                /\ o.post = [o.pre EXCEPT !.pollCount = o.pre.pollCount - 1]
                /\ o.rsp.type = "POLLREP"
                /\ o.rsp.certReqId = o.pre.certReqId
                /\ o.rsp.checkAfter = o.pre.checkAfterTime

\* both branches of C2 have been taken in one session: a PollRep first, then
\* the certificate of the retained request
C2_Reached ==
    /\ PollReqWithRetained(hist.obs)
    /\ hist.obs.pre.pollCount = 0
    /\ hist.obs.rsp.type = "KUP"
    /\ hist.obs.rsp.cert = "C0"
    /\ hist.cfg.pollCount = 3

----------------------------------------------------------------------------
\* Properties of sessions.

Terminal == ses.pc \in {"done", "failed"}

\* no step of the transport interfered with the session
Honest == ~hist.tampered

\* number of messages of body type ty in the trace of the session
Count(ty) == Cardinality({i \in DOMAIN hist.trace : hist.trace[i] = ty})

\* a request is on its way or its response is, so that the session moves on
InProgress == net.req # NoMsg \/ net.rsp # NoMsg \/ net.failed

\* the polling scenarios of test/cmp_client_test.c: an IR session against the
\* fixture with the given pollCount, checkAfterTime and total timeout
PollScenario(pollCount, checkAfter, timeout) ==
    /\ \E i \in Impls :
          hist.cfg = [Fixture EXCEPT !.impl = i, !.pollCount = pollCount,
                                     !.checkAfterTime = checkAfter,
                                     !.maxPollTime = timeout]
    /\ ses.kind = "IR"
    /\ Honest

C4_PollTimeoutFails ==
    (PollScenario(4, 1, 3) /\ Terminal) =>
        /\ ses.pc = "failed"
        /\ ses.result = NoCert
        /\ cctx.newClCert = NoCert
        /\ \E i \in DOMAIN ses.err : ses.err[i] = "TOTAL_TIMEOUT"

----------------------------------------------------------------------------
\* Properties of polling under a total timeout.  hist.polls has one entry
\* per PollRep handled: the budget left when it came, its checkAfter, the
\* time slept after it and the place in the trace of the PollReq that
\* followed (0 when none did).

RECURSIVE SumSlept(_)
SumSlept(polls) ==
    IF polls = <<>> THEN 0 ELSE Head(polls).slept + SumSlept(Tail(polls))

\* C5: in a polling session with totalTimeout T > 0 the durations slept
\* between PollReqs never add up to more than T, whatever checkAfter values
\* (each >= 0) the PollReps carry.
C5_SleepWithinBudget ==
    cctx.maxPollTime > 0 =>
        /\ SumSlept(hist.polls) <= cctx.maxPollTime
        /\ \A i \in DOMAIN hist.polls : hist.polls[i].slept >= 0

\* the whole budget has been slept in rounds of different checkAfter
C5_Reached ==
    /\ cctx.maxPollTime = MaxTimeout
    /\ SumSlept(hist.polls) = cctx.maxPollTime
    /\ Len(hist.polls) >= 2
    /\ \E i, j \in DOMAIN hist.polls :
          hist.polls[i].checkAfter # hist.polls[j].checkAfter

\* a PollRep whose checkAfter is not smaller than the budget left
Truncated(i) ==
    /\ cctx.maxPollTime > 0
    /\ hist.polls[i].left > 0
    /\ hist.polls[i].checkAfter >= hist.polls[i].left

\* after such a PollRep the client sleeps the budget left and sends one
\* PollReq, and none after it
LastPollReq(i) ==
    /\ hist.polls[i].slept = hist.polls[i].left
    /\ hist.polls[i].at \in DOMAIN hist.trace
    /\ hist.trace[hist.polls[i].at] = "POLLREQ"
    /\ \A j \in DOMAIN hist.trace :
          j > hist.polls[i].at => hist.trace[j] # "POLLREQ"

\* the response to the PollReq sent after round i has been handled
AnswerHandled(i) == Len(hist.trace) > hist.polls[i].at

\* C6 as stated: after a PollRep whose checkAfter is not smaller than the
\* budget left, the client sleeps the budget left and sends exactly one
\* further PollReq, and once its response has been handled the session is in
\* a terminal state.
C6_TerminalAfterLastPoll ==
    \A i \in DOMAIN hist.polls :
        Truncated(i) =>
            /\ LastPollReq(i)
            /\ AnswerHandled(i) => Terminal

\* C6: after a PollRep whose checkAfter is not smaller than the budget left
\* (totalTimeout > 0, budget left > 0), the client sleeps the budget left and
\* sends exactly one further PollReq; once its response has been handled no
\* PollReq is ever sent again: the session has failed, or it goes on with the
\* certificate response (done, or the certConf exchange that leads there).
C6_NoPollAfterLastPoll ==
    \A i \in DOMAIN hist.polls :
        Truncated(i) =>
            /\ LastPollReq(i)
            /\ AnswerHandled(i) =>
                  \/ Terminal
                  \/ ses.pc = "wait" /\ ses.caller = "conf" /\ cctx.newClCert # NoCert

C6_Reached ==
    \E i \in DOMAIN hist.polls :
        /\ Truncated(i)
        /\ hist.polls[i].checkAfter > hist.polls[i].left
        /\ AnswerHandled(i)
        /\ ses.pc = "done"

\* the budget was used up and yet another PollRep answered the last PollReq
BudgetUsedUp ==
    /\ cctx.maxPollTime > 0
    /\ \E i \in DOMAIN hist.polls : hist.polls[i].left = 0

\* C7 as stated: if the polling budget is used up and the server answers the
\* last PollReq with yet another PollRep, the session fails reporting the
\* total-timeout error and returns no certificate.
C7_TimeoutReported ==
    BudgetUsedUp =>
        /\ ses.pc = "failed"
        /\ ses.result = NoCert
        /\ \E i \in DOMAIN ses.err : ses.err[i] = "TOTAL_TIMEOUT"

\* what holds of the session of C7: it fails, hands back no certificate and
\* reports that the response of the request was not received
C7_FailsNotReceived ==
    BudgetUsedUp =>
        /\ ses.pc = "failed"
        /\ ses.result = NoCert
        /\ ses.err = <<NotReceivedOf(ses.kind)>>

----------------------------------------------------------------------------
\* Properties of the checks on a received response.  hist.rcv is the last
\* response the client handled: the request it answers, the context before
\* the check and whether send_receive_check accepted it.

WasReceived(v) == v.n > 0 /\ v.rep # NoMsg

BadRecipNonce(v) ==
    \/ v.rep.recipNonce = NoNonce
    \/ v.rep.recipNonce # v.req.senderNonce

BadTransactionID(v) ==
    \/ v.rep.transactionID = NoTxid
    \/ v.rep.transactionID # v.ctx.transactionID

\* the response passes the protection check that comes first
ProtectionAccepted(v) ==
    IF v.rep.prot = "none" THEN UnprotectedException(v.ctx, v.rep, v.type_rep)
    ELSE CMP_validate_msg(v.ctx, v.rep)

\* C8 as stated: a received response without recipNonce, or with one that
\* differs from the senderNonce of the request sent last, is rejected with
\* NoncesDoNotMatch and the session fails, at every step.
C8_BadNonceReported ==
    (WasReceived(hist.rcv) /\ BadRecipNonce(hist.rcv)) =>
        /\ ses.pc = "failed"
        /\ ses.err # <<>>
        /\ ses.err[1] = "ERROR_NONCES_DO_NOT_MATCH"

\* C8: a received response without recipNonce, or with one that differs from
\* the senderNonce of the request sent last, is rejected and the session
\* fails, at every step (request, PollReq, certConf); the error is
\* NoncesDoNotMatch when the response passes the protection check, which
\* comes first, and ErrorValidatingProtection when it does not.
C8_BadNonceRejected ==
    (WasReceived(hist.rcv) /\ BadRecipNonce(hist.rcv)) =>
        /\ ses.pc = "failed"
        /\ ~hist.rcv.ok
        /\ ses.result = NoCert
        /\ ses.err # <<>>
        /\ ses.err[1] = IF ProtectionAccepted(hist.rcv)
                        THEN "ERROR_NONCES_DO_NOT_MATCH"
                        ELSE "ERROR_VALIDATING_PROTECTION"

C8_Reached ==
    /\ WasReceived(hist.rcv)
    /\ hist.rcv.caller = "conf"
    /\ hist.rcv.rep.recipNonce = 0 - hist.rcv.req.senderNonce
    /\ hist.rcv.rep.prot = "valid"
    /\ ses.pc = "failed"
    /\ ses.err = <<"ERROR_NONCES_DO_NOT_MATCH">>

C10_RecipNonceEchoed ==
    /\ hist.rcv.ok => cctx.recipNonce = hist.rcv.rep.senderNonce
    /\ (ses.pc = "wait" /\ hist.validated # NoNonce) =>
          /\ ses.req.type \in {"POLLREQ", "CERTCONF"}
          /\ ses.req.recipNonce = hist.validated
          /\ hist.validated = hist.rcv.rep.senderNonce

C10_Reached ==
    /\ ses.pc = "wait"
    /\ ses.req.type = "CERTCONF"
    /\ Count("POLLREP") >= 2
    /\ hist.validated # NoNonce
    /\ ses.req.recipNonce = hist.validated

----------------------------------------------------------------------------
\* Unprotected responses.

Unprotected(v) == WasReceived(v) /\ v.rep.prot = "none"

\* the bodies an unprotected response may have
ExemptBody(rep) ==
    \/ rep.type = "ERROR"
    \/ rep.type = "RP" /\ rep.status = OSSL_CMP_PKISTATUS_rejection
    \/ rep.type = "PKICONF"
    \/ rep.type \in {"IP", "CP", "KUP"} /\ rep.status = OSSL_CMP_PKISTATUS_rejection

\* C11: the client accepts an unprotected response only if unprotectedErrors
\* is set and the body is ERROR, RP with status rejection, PKICONF, or
\* IP/CP/KUP with status rejection; every other unprotected response, and
\* every unprotected response when unprotectedErrors is not set, fails with
\* ErrorValidatingProtection.
C11_UnprotectedOnlyByException ==
    Unprotected(hist.rcv) =>
        /\ hist.rcv.ok => hist.rcv.ctx.unprotectedErrors /\ ExemptBody(hist.rcv.rep)
        /\ ~(hist.rcv.ctx.unprotectedErrors /\ ExemptBody(hist.rcv.rep)) =>
              /\ ~hist.rcv.ok
              /\ ses.pc = "failed"
              /\ ses.err[1] = "ERROR_VALIDATING_PROTECTION"

\* an unprotected rejection is accepted by the client
C11_Reached ==
    /\ Unprotected(hist.rcv)
    /\ hist.rcv.ok
    /\ hist.rcv.rep.type \in {"IP", "RP"}

----------------------------------------------------------------------------
\* Induced errors.

\* the responder took in a request that passes its validation while
\* sendError is set
SendErrorCall(o) ==
    /\ o.n > 0
    /\ o.pre.sendError
    /\ ossl_cmp_msg_check_received(o.pre, o.req)

ProcessorStateKept(o) ==
    /\ o.post.pollCount = o.pre.pollCount
    /\ o.post.certReq = o.pre.certReq
    /\ o.post.certReqId = o.pre.certReqId

\* C12 as stated: with sendError set, every request that passes validation,
\* whatever its body type, is answered with an ERROR body carrying
\* pkiStatusOut, and pollCount, certReq and certReqId are left unchanged.
C12_SendErrorAnswersError ==
    SendErrorCall(hist.obs) =>
        /\ hist.obs.rsp.type = "ERROR"
        /\ hist.obs.rsp.status = hist.obs.pre.pkiStatusOut
        /\ ProcessorStateKept(hist.obs)

\* with sendError set no processor changes the responder's state, and the
\* responder of cmp_server.c answers ERROR with pkiStatusOut
C12_SendErrorKeepsState ==
    SendErrorCall(hist.obs) =>
        /\ ProcessorStateKept(hist.obs)
        /\ hist.obs.pre.impl = "srv" =>
              /\ hist.obs.rsp.type = "ERROR"
              /\ hist.obs.rsp.status = hist.obs.pre.pkiStatusOut

C12_Reached ==
    /\ SendErrorCall(hist.obs)
    /\ hist.obs.req.type = "CERTCONF"
    /\ hist.obs.rsp.type = "ERROR"

----------------------------------------------------------------------------
\* Certificate confirmation on the responder.

\* process_certConf runs on a certConf that passed the validation
CertConfCall(o) ==
    /\ o.n > 0
    /\ o.req.type = "CERTCONF"
    /\ ossl_cmp_msg_check_received(o.pre, o.req)
    /\ ~o.pre.sendError

IdMismatch(o) == o.req.certReqId # o.pre.certReqId

HashMismatch(o) ==
    o.pre.certOut = NoCert \/ o.req.certHash # X509_digest(o.pre.certOut)

\* C13 as stated: PKICONF is the answer only when the certReqId of the
\* certConf equals the stored one and the certHash equals the hash over
\* certOut; a certReqId mismatch fails with UnexpectedRequestID, a hash
\* mismatch with WrongCertHash, and neither is answered by PKICONF.
C13_CertConfChecked ==
    CertConfCall(hist.obs) =>
        /\ hist.obs.rsp.type = "PKICONF" =>
              ~IdMismatch(hist.obs) /\ ~HashMismatch(hist.obs)
        /\ IdMismatch(hist.obs) =>
              hist.obs.err = "UNEXPECTED_REQUEST_ID" /\ hist.obs.rsp.type # "PKICONF"
        /\ HashMismatch(hist.obs) =>
              hist.obs.err = "WRONG_CERT_HASH" /\ hist.obs.rsp.type # "PKICONF"

\* C13: for a certConf that carries a CertStatus, PKICONF is the answer
\* exactly when the certReqId equals the stored one and the certHash equals
\* the hash over certOut; a certReqId mismatch fails with UnexpectedRequestID;
\* with a matching certReqId a hash mismatch fails with WrongCertHash (with
\* no error at all when the responder has no certOut to hash); neither is
\* answered by PKICONF.  A certConf without CertStatus is acknowledged by
\* PKICONF without any check.
C13_CertConfCheckedInOrder ==
    CertConfCall(hist.obs) =>
        IF hist.obs.req.numStatus = 0 THEN
            hist.obs.rsp.type = "PKICONF" /\ hist.obs.err = ""
        ELSE
            /\ hist.obs.rsp.type = "PKICONF" <=>
                  ~IdMismatch(hist.obs) /\ ~HashMismatch(hist.obs)
            /\ IdMismatch(hist.obs) => hist.obs.err = "UNEXPECTED_REQUEST_ID"
            /\ ~IdMismatch(hist.obs) /\ HashMismatch(hist.obs) =>
                  hist.obs.err = IF hist.obs.pre.certOut = NoCert THEN ""
                                 ELSE "WRONG_CERT_HASH"

\* a certConf with the stored certReqId and another hash was refused
C13_Reached ==
    /\ CertConfCall(hist.obs)
    /\ hist.obs.req.numStatus = 1
    /\ ~IdMismatch(hist.obs)
    /\ HashMismatch(hist.obs)
    /\ hist.obs.err = "WRONG_CERT_HASH"

----------------------------------------------------------------------------
\* Revocation.

\* process_rr runs on an RR that names another certificate than certOut
RRMismatch(o) ==
    /\ o.n > 0
    /\ o.req.type = "RR"
    /\ ossl_cmp_msg_check_received(o.pre, o.req)
    /\ ~o.pre.sendError
    /\ o.pre.certOut # NoCert
    /\ \/ o.req.issuer # Issuer(o.pre.certOut)
       \/ o.req.serial # Serial(o.pre.certOut)

\* the results CMP_doRevocationRequestSeq hands back for a revocation done
RRSuccessCodes ==
    {RevocationResult(st).result :
        st \in {OSSL_CMP_PKISTATUS_accepted, OSSL_CMP_PKISTATUS_grantedWithMods,
                OSSL_CMP_PKISTATUS_revocationWarning,
                OSSL_CMP_PKISTATUS_revocationNotification}}

RRReturned == ses.caller = "rr" /\ ses.pc \in {"done", "failed"}

\* C14 as stated: an RR whose issuer or serial does not match certOut is
\* refused by process_rr with RequestNotAccepted, is never answered by an RP
\* of status accepted, and the RR session returns a result that differs
\* from every success result.
C14_MismatchRequestNotAccepted ==
    RRMismatch(hist.obs) =>
        /\ hist.obs.err = "REQUEST_NOT_ACCEPTED"
        /\ ~(hist.obs.rsp.type = "RP"
               /\ hist.obs.rsp.status = OSSL_CMP_PKISTATUS_accepted)
        /\ RRReturned => ses.rrResult \notin RRSuccessCodes

\* an RR that does not match certOut is answered by no RP at all and the RR
\* session returns the error result; the responder of cmp_server.c raises
\* RequestNotAccepted
C14_MismatchRefused ==
    RRMismatch(hist.obs) =>
        /\ hist.obs.rsp.type # "RP"
        /\ hist.obs.pre.impl = "srv" => hist.obs.err = "REQUEST_NOT_ACCEPTED"
        /\ RRReturned => ses.rrResult = 0 /\ ses.pc = "failed"

C14_Reached ==
    /\ RRMismatch(hist.obs)
    /\ RRReturned
    /\ hist.obs.pre.impl = "mock"

RevokingStatuses ==
    {OSSL_CMP_PKISTATUS_accepted, OSSL_CMP_PKISTATUS_grantedWithMods,
     OSSL_CMP_PKISTATUS_revocationWarning, OSSL_CMP_PKISTATUS_revocationNotification}

\* the RR session returned after an RP passed send_receive_check
ValidatedRP ==
    /\ RRReturned
    /\ hist.rcv.ok
    /\ hist.rcv.rep.type = "RP"

\* C15: the RR session maps the PKIStatus of the validated RP to its result:
\* accepted, grantedWithMods, revocationWarning and revocationNotification
\* give pairwise distinct success codes; rejection gives a non-error outcome
\* that differs from all success codes and from the error result; waiting
\* and keyUpdateWarning fail with UnexpectedPKIStatus; any other value fails
\* with UnknownPKIStatus.
C15_RevocationResultByStatus ==
    ValidatedRP =>
        LET st == hist.rcv.rep.status
        IN  CASE st \in RevokingStatuses ->
                    /\ ses.pc = "done" /\ ses.err = <<>>
                    /\ ses.rrResult # 0
                    /\ \A other \in RevokingStatuses \ {st} :
                          RevocationResult(other).result # ses.rrResult
              [] st = OSSL_CMP_PKISTATUS_rejection ->
                    /\ ses.pc = "done" /\ ses.err = <<>>
                    /\ ses.rrResult # 0
                    /\ ses.rrResult \notin RRSuccessCodes
              [] st \in {OSSL_CMP_PKISTATUS_waiting, OSSL_CMP_PKISTATUS_keyUpdateWarning} ->
                    /\ ses.pc = "failed" /\ ses.rrResult = 0
                    /\ ses.err = <<"UNEXPECTED_PKISTATUS">>
              [] OTHER ->
                    /\ ses.pc = "failed" /\ ses.rrResult = 0
                    /\ ses.err = <<"UNKNOWN_PKISTATUS">>

\* an RP of status rejection was validated and the session returned
C15_Reached ==
    /\ ValidatedRP
    /\ hist.rcv.rep.status = OSSL_CMP_PKISTATUS_rejection
    /\ ses.pc = "done"

----------------------------------------------------------------------------
\* Rendering of the status kept in the client context.  A rendered string
\* is the sequence of its words; <<>> stands for the NULL result.

OSSL_CMP_PKIStatus_to_string(status) ==
    CASE status = OSSL_CMP_PKISTATUS_accepted -> <<"PKIStatus:", "accepted">>
      [] status = OSSL_CMP_PKISTATUS_grantedWithMods ->
            <<"PKIStatus:", "granted", "with", "modifications">>
      [] status = OSSL_CMP_PKISTATUS_rejection -> <<"PKIStatus:", "rejection">>
      [] status = OSSL_CMP_PKISTATUS_waiting -> <<"PKIStatus:", "waiting">>
      [] status = OSSL_CMP_PKISTATUS_revocationWarning ->
            <<"PKIStatus:", "revocation", "warning">>
      [] status = OSSL_CMP_PKISTATUS_revocationNotification ->
            <<"PKIStatus:", "revocation", "notification">>
      [] status = OSSL_CMP_PKISTATUS_keyUpdateWarning ->
            <<"PKIStatus:", "key", "update", "warning">>
      [] OTHER -> <<>>

\* the context of this client keeps at most one failure bit and no
\* statusString
OSSL_CMP_CTX_snprint_PKIStatus(c) ==
    IF c.lastPKIStatus < 0 \/ OSSL_CMP_PKIStatus_to_string(c.lastPKIStatus) = <<>>
    THEN <<>>
    ELSE OSSL_CMP_PKIStatus_to_string(c.lastPKIStatus) \o
         (IF c.failInfoCode # "none"
          THEN <<";", "PKIFailureInfo:", c.failInfoCode>>
          ELSE IF c.lastPKIStatus \notin {OSSL_CMP_PKISTATUS_accepted,
                                          OSSL_CMP_PKISTATUS_grantedWithMods}
          THEN <<";", "<no failure info>">>
          ELSE <<>>)

Contains(str, word) == \E i \in DOMAIN str : str[i] = word

\* the RR session returned from a responder set up to send the error
\* (rejection, signerNotTrusted)
InducedRRError ==
    /\ RRReturned
    /\ srv.sendError
    /\ srv.pkiStatusOut = OSSL_CMP_PKISTATUS_rejection
    /\ srv.failInfoOut = "signerNotTrusted"

\* C16 as stated: with sendError set and pkiStatusOut = (rejection,
\* signerNotTrusted) the RR session fails, and afterwards the last status of
\* the client context renders to a string that contains rejection and
\* signerNotTrusted.
C16_InducedErrorRendered ==
    InducedRRError =>
        /\ ses.pc = "failed" /\ ses.rrResult = 0
        /\ Contains(OSSL_CMP_CTX_snprint_PKIStatus(cctx), "rejection")
        /\ Contains(OSSL_CMP_CTX_snprint_PKIStatus(cctx), "signerNotTrusted")

\* the RR session fails on the induced error and leaves the status of the
\* client context as it was
C16_InducedErrorFails ==
    InducedRRError =>
        /\ ses.pc = "failed" /\ ses.rrResult = 0
        /\ cctx.lastPKIStatus = NoStatus
        /\ cctx.failInfoCode = "none"

C16_Reached ==
    /\ InducedRRError
    /\ hist.rcv.rep.type = "ERROR"
    /\ hist.rcv.rep.failInfo = "signerNotTrusted"

----------------------------------------------------------------------------
\* Certificate confirmation on the client.

CertSession == ses.kind \in CertReqTypes

\* cert_response took the certificate out of the response handled last
CertObtained ==
    /\ CertSession
    /\ hist.rcv.ok
    /\ hist.rcv.rep.type \in CertRepTypes
    /\ cctx.newClCert # NoCert

\* the client asked for implicit confirmation and the responder grants it
ImplicitConfirmGranted ==
    /\ CertSession
    /\ Honest
    /\ hist.cfg.implicitConfirm
    /\ hist.cfg.grantImplicitConfirm

\* C17: in a cert-issuance session the client sends certConf after obtaining
\* the certificate if and only if disableConfirm is not set and the header of
\* the cert response carries no implicitConfirm; when the client asks for
\* implicit confirmation and the responder grants it, the session completes
\* with newCert present and without any certConf/PKICONF exchange.
C17_CertConfUnlessImplicit ==
    /\ CertObtained =>
          (Count("CERTCONF") > 0 <=>
              ~cctx.disableConfirm /\ ~hist.rcv.rep.implicitConfirm)
    /\ ImplicitConfirmGranted =>
          /\ Count("CERTCONF") = 0 /\ Count("PKICONF") = 0
          /\ ses.pc = "done" => ses.result # NoCert /\ cctx.newClCert = ses.result
          /\ CertObtained => ses.pc = "done"

\* implicit confirmation was asked for and granted, and the session is
\* complete
C17_Reached ==
    /\ ImplicitConfirmGranted
    /\ CertObtained
    /\ hist.rcv.rep.implicitConfirm
    /\ ~cctx.disableConfirm
    /\ ses.pc = "done"

----------------------------------------------------------------------------
\* Implicit confirmation on the responder.

\* the request a cert response answers: the retained one when the response
\* comes on a pollReq
AnsweredRequest(o) == IF o.req.type = "POLLREQ" THEN o.pre.certReq ELSE o.req

\* C18: over any sequence of requests handled by one responder context, a
\* cert response carries the implicitConfirm ITAV only if the request it
\* answers carried implicitConfirm and grantImplicitConfirm is set at that
\* time; a grant made for an earlier request does not carry over.
C18_ITAVOnlyWhenAskedAndGranted ==
    (hist.obs.n > 0 /\ hist.obs.rsp.type \in CertRepTypes
        /\ hist.obs.rsp.implicitConfirm) =>
        /\ AnsweredRequest(hist.obs).implicitConfirm
        /\ hist.obs.pre.grantImplicitConfirm

\* the responder that keeps no option between requests never sends the ITAV
\* unasked
C18_MockITAVOnlyWhenAsked ==
    (hist.obs.n > 0 /\ hist.obs.pre.impl = "mock"
        /\ hist.obs.rsp.type \in CertRepTypes /\ hist.obs.rsp.implicitConfirm) =>
        /\ AnsweredRequest(hist.obs).implicitConfirm
        /\ hist.obs.pre.grantImplicitConfirm

\* C19: in every cert-issuance session, sessions that go through polling
\* included, the client sends at most one certConf.
C19_AtMostOneCertConf ==
    CertSession => Count("CERTCONF") <= 1

\* a session that went through polling has sent its certConf and is complete
C19_Reached ==
    /\ CertSession
    /\ Count("POLLREQ") >= 1
    /\ Count("CERTCONF") = 1
    /\ ses.pc = "done"

----------------------------------------------------------------------------
\* The IR session of test_exec_IR_ses.

\* a fresh client context, the mock responder with pollCount 0, status
\* accepted, certOut C0 and caPubsOut [Csrv, Csrv], an undisturbed transfer
HappyIR ==
    /\ hist.cfg = [Fixture EXCEPT !.caPubsOut = <<"Csrv", "Csrv">>]
    /\ ses.kind = "IR"
    /\ Honest

\* C20: IR happy path: the session sends no PollReq, sends certConf and
\* receives PKICONF, and ends with newCert equal to C0 and ctx.caPubs equal
\* to caPubsOut in the same order, duplicates kept.
C20_HappyIR ==
    HappyIR =>
        /\ Count("POLLREQ") = 0
        /\ Terminal =>
              /\ ses.pc = "done"
              /\ hist.trace = <<"IR", "IP", "CERTCONF", "PKICONF">>
              /\ ses.result = "C0" /\ cctx.newClCert = "C0"
              /\ cctx.caPubs = hist.cfg.caPubsOut
              /\ cctx.caPubs = <<"Csrv", "Csrv">>

C20_Reached ==
    /\ HappyIR
    /\ Terminal
    /\ hist.rcv.ok /\ hist.rcv.rep.type = "PKICONF"
    /\ cctx.caPubs = <<"Csrv", "Csrv">>

----------------------------------------------------------------------------
\* Exchanges called on their own.

\* exchange_certConf ran on a context that holds a newCert and has run no
\* certificate request, and nothing interfered with the exchange
PreemptiveCertConf ==
    /\ ses.kind = "CERTCONF"
    /\ hist.cfg.newCert # NoCert
    /\ Honest

\* C21 as stated: exchange_certConf on a context that holds a newCert but
\* has run no certificate request fails: the responder, whose stored
\* certReqId does not match the certConf, does not answer PKICONF and the
\* call does not return success.
C21_PreemptiveCertConfFails ==
    PreemptiveCertConf =>
        /\ hist.obs.n > 0 => hist.obs.rsp.type # "PKICONF"
        /\ ses.pc # "done"

\* the same for the responder of apps/cmp_mock_srv.c alone, whose stored
\* certReqId starts at -1
C21_MockPreemptiveCertConfFails ==
    PreemptiveCertConf /\ srv.impl = "mock" =>
        /\ hist.obs.n > 0 => hist.obs.rsp.type # "PKICONF"
        /\ hist.obs.n > 0 /\ ossl_cmp_msg_check_received(hist.obs.pre, hist.obs.req)
              /\ ~hist.obs.pre.sendError
              => hist.obs.err = "UNEXPECTED_REQUEST_ID"
        /\ ses.pc # "done"
        /\ Terminal => ses.pc = "failed"

\* exchange_certConf ran on a context that holds no newCert
NoCertToConfirm ==
    /\ ses.kind = "CERTCONF"
    /\ hist.cfg.newCert = NoCert

ErrorProcessed ==
    /\ ses.kind = "ERROR"
    /\ Honest
    /\ hist.obs.req.type = "ERROR"
    /\ Dispatched(hist.obs)

\* C23: exchange_error succeeds in any client state, on a fresh context as
\* well as after a session: the ERROR message that reaches process_error is
\* answered by PKICONF, the client accepts the PKICONF and the call returns
\* success.
C23_ErrorExchangeSucceeds ==
    ErrorProcessed =>
        /\ hist.obs.rsp.type = "PKICONF"
        /\ ses.pc \in {"wait", "done"}
        /\ Terminal => hist.rcv.ok /\ hist.rcv.rep.type = "PKICONF"

\* exchange_error succeeded on a context that a certificate request left
\* behind, with the certificate it obtained
C23_Reached ==
    /\ ErrorProcessed
    /\ ses.pc = "done"
    /\ cctx.newClCert # NoCert
    /\ Count("IP") = 1

----------------------------------------------------------------------------
\* General messages.

\* CMP_doGeneralMessageSeq returned the ITAVs of a GENP
GenmReturned == ses.kind = "GENM" /\ ses.pc = "done"

\* C24: a GENM session returns a GENP ITAV list equal, element by element
\* and in order, to the ITAV list the client sent.
C24_GenpMirrorsGenm ==
    GenmReturned =>
        /\ Len(ses.itavs) = Len(hist.rcv.req.itavs)
        /\ \A i \in 1..Len(ses.itavs) : ses.itavs[i] = hist.rcv.req.itavs[i]
        /\ hist.obs.rsp.itavs = hist.obs.req.itavs

\* a list of two different ITAVs came back from the responder of cmp_server.c
C24_Reached ==
    /\ GenmReturned
    /\ srv.impl = "srv"
    /\ ses.itavs = <<"itavB", "itavA">>

----------------------------------------------------------------------------
\* Header functions on their own (test/cmp_hdr_test.c).  cmp_hdr.c is not
\* part of the sources; the functions follow spec section 4.1.  In this
\* specification cctx is the context of the fixture, net the header under
\* test, ses counts the calls and hist.inits lists what each call of
\* init_header returned.

NoName == ""

\* OSSL_CMP_PKIHEADER_new, with or without an ITAV of another type in
\* generalInfo
NewHdr(generalInfo) ==
    [pvno |-> 0, sender |-> NoName, transactionID |-> NoTxid,
     senderNonce |-> NoNonce, recipNonce |-> NoNonce, prot |-> "none",
     generalInfo |-> generalInfo]

\* OSSL_CMP_CTX_new followed by the setters of the tests
HdrCtx(clCert, subjectName, referenceValue, recipNonce, transactionID) ==
    [transactionID |-> transactionID, recipNonce |-> recipNonce,
     senderNonce |-> NoNonce, clCert |-> clCert, subjectName |-> subjectName,
     referenceValue |-> referenceValue, unprotectedSend |-> TRUE]

\* sender of the header: the subject of clCert, else the subject name set
\* on the context, else the NULL-DN
HdrSender(c) ==
    IF c.clCert # NoCert THEN "subject of " \o c.clCert
    ELSE IF c.subjectName # NoName THEN c.subjectName
    ELSE "NULL-DN"

\* init_header that keeps the senderNonce out of the context
init_header_forgets_nonce(c, hdr, nonce, fresh) ==
    IF c.clCert = NoCert /\ c.subjectName = NoName /\ c.referenceValue = NoName
    THEN [ok |-> FALSE, ctx |-> c, hdr |-> hdr]
    ELSE
        LET h == ossl_cmp_hdr_init(c, hdr, nonce, fresh)
        IN  [ok |-> TRUE,
             ctx |-> [c EXCEPT !.transactionID = h.transactionID],
             hdr |-> [h EXCEPT !.pvno = OSSL_CMP_PVNO, !.sender = HdrSender(c)]]

\* init_header that asks for a certificate or a subject name
init_header_needs_name(c, hdr, nonce, fresh) ==
    IF c.clCert = NoCert /\ c.subjectName = NoName
    THEN [ok |-> FALSE, ctx |-> c, hdr |-> hdr]
    ELSE
        LET h == ossl_cmp_hdr_init(c, hdr, nonce, fresh)
        IN  [ok |-> TRUE,
             ctx |-> [c EXCEPT !.transactionID = h.transactionID,
                               !.senderNonce = h.senderNonce],
             hdr |-> [h EXCEPT !.pvno = OSSL_CMP_PVNO, !.sender = HdrSender(c)]]

\* init_header that draws a transactionID with every call
init_header_new_txid(c, hdr, nonce, fresh) ==
    IF c.clCert = NoCert /\ c.subjectName = NoName /\ c.referenceValue = NoName
    THEN [ok |-> FALSE, ctx |-> c, hdr |-> hdr]
    ELSE
        LET h == [ossl_cmp_hdr_init(c, hdr, nonce, fresh) EXCEPT !.transactionID = fresh]
        IN  [ok |-> TRUE,
             ctx |-> [c EXCEPT !.transactionID = h.transactionID,
                               !.senderNonce = h.senderNonce],
             hdr |-> [h EXCEPT !.pvno = OSSL_CMP_PVNO, !.sender = HdrSender(c)]]

\* init_header(ctx, hdr): fails when nothing identifies the sender; else
\* fills the header and stores the transactionID and the senderNonce it
\* generated into the context
init_header(c, hdr, nonce, fresh) ==
    IF c.clCert = NoCert /\ c.subjectName = NoName /\ c.referenceValue = NoName
    THEN [ok |-> FALSE, ctx |-> c, hdr |-> hdr]
    ELSE
        LET h == ossl_cmp_hdr_init(c, hdr, nonce, fresh)
        IN  [ok |-> TRUE,
             ctx |-> [c EXCEPT !.transactionID = h.transactionID,
                               !.senderNonce = h.senderNonce],
             hdr |-> [h EXCEPT !.pvno = OSSL_CMP_PVNO, !.sender = HdrSender(c)]]

ImplicitConfirmITAV == "id-it-implicitConfirm"

ossl_cmp_hdr_check_implicitConfirm(hdr) ==
    \E i \in 1..Len(hdr.generalInfo) : hdr.generalInfo[i] = ImplicitConfirmITAV

\* set_implicitConfirm that pushes the ITAV with every call
ossl_cmp_hdr_set_implicitConfirm_push(hdr) ==
    [hdr EXCEPT !.generalInfo = Append(@, ImplicitConfirmITAV)]

\* set_implicitConfirm pushes the ITAV once; repeated calls change nothing
ossl_cmp_hdr_set_implicitConfirm(hdr) ==
    IF ossl_cmp_hdr_check_implicitConfirm(hdr) THEN hdr
    ELSE [hdr EXCEPT !.generalInfo = Append(@, ImplicitConfirmITAV)]

\* set_up of the fixture and the setters a test calls before the function
\* under test
InitHdr ==
    \E clCert \in {NoCert, "C0"}, subjectName \in {NoName, "CN=subject"},
       referenceValue \in {NoName, "ref"}, recipNonce \in {NoNonce, 50},
       transactionID \in {NoTxid, 60}, generalInfo \in {<<>>, <<"id-it-caProtEncCert">>} :
        /\ cctx = HdrCtx(clCert, subjectName, referenceValue, recipNonce, transactionID)
        /\ net = NewHdr(generalInfo)
        /\ ses = [pc |-> "hdr", inits |-> 0, sets |-> 0]
        /\ srv = SrvCtxOf(Fixture)
        /\ hist = [cfg |-> Fixture, nNonce |-> 0, inits |-> <<>>, checks |-> <<>>]

\* execute_HDR_init_test: one call of init_header on the fixture
HDR_init ==
    /\ ses.inits < MaxHdrCalls
    /\ LET n == hist.nNonce + 1
           r == init_header(cctx, net, n, n)
       IN  /\ cctx' = r.ctx
           /\ net' = r.hdr
           /\ ses' = [ses EXCEPT !.inits = @ + 1]
           /\ hist' = [hist EXCEPT !.nNonce = n, !.inits = Append(@, r)]
    /\ UNCHANGED srv

\* execute_HDR_set_and_check_implicitConfirm_test: check, set, check;
\* hist.checks lists what check_implicitConfirm returned before and after
HDR_set_implicitConfirm ==
    /\ ses.sets < MaxHdrCalls
    /\ net' = ossl_cmp_hdr_set_implicitConfirm(net)
    /\ ses' = [ses EXCEPT !.sets = @ + 1]
    /\ hist' = [hist EXCEPT !.checks = Append(@,
                    [before |-> ossl_cmp_hdr_check_implicitConfirm(net),
                     after |-> ossl_cmp_hdr_check_implicitConfirm(net')])]
    /\ UNCHANGED <<cctx, srv>>

NextHdr ==
    \/ HDR_init
    \/ HDR_set_implicitConfirm

SpecHdr == InitHdr /\ [][NextHdr]_vars

\* the last call of init_header, once there was one
LastInit == hist.inits[Len(hist.inits)]

\* C25: after a successful init_header(ctx, hdr) the header's pvno is 2,
\* its senderNonce equals the last-sent senderNonce of the context, its
\* transactionID equals the transactionID of the context, and whenever the
\* context holds a recipNonce the header's recipNonce is present and equal.
C25_HeaderAgreesWithContext ==
    (Len(hist.inits) > 0 /\ LastInit.ok) =>
        /\ net.pvno = OSSL_CMP_PVNO
        /\ net.senderNonce # NoNonce
        /\ net.senderNonce = cctx.senderNonce
        /\ net.transactionID # NoTxid
        /\ net.transactionID = cctx.transactionID
        /\ cctx.recipNonce # NoNonce => net.recipNonce = cctx.recipNonce

\* init_header succeeded on a context that holds a recipNonce
C25_Reached ==
    /\ Len(hist.inits) > 0
    /\ LastInit.ok
    /\ cctx.recipNonce # NoNonce
    /\ net.recipNonce = cctx.recipNonce

\* C26: init_header fails when the context has neither a clientCert nor a
\* subject name nor a referenceValue, and succeeds when only a
\* referenceValue or only a subject name is set.
C26_InitNeedsSender ==
    \A i \in 1..Len(hist.inits) :
        /\ (cctx.clCert = NoCert /\ cctx.subjectName = NoName
                /\ cctx.referenceValue = NoName) => ~hist.inits[i].ok
        /\ (cctx.clCert = NoCert /\ cctx.subjectName = NoName
                /\ cctx.referenceValue # NoName) => hist.inits[i].ok
        /\ (cctx.clCert = NoCert /\ cctx.subjectName # NoName
                /\ cctx.referenceValue = NoName) => hist.inits[i].ok

\* init_header failed on a context that names no sender
C26_Reached ==
    /\ Len(hist.inits) > 0
    /\ ~LastInit.ok
    /\ cctx.clCert = NoCert
    /\ cctx.subjectName = NoName
    /\ cctx.referenceValue = NoName

\* init_header succeeded on a context that holds a referenceValue only
C26_ReachedReferenceOnly ==
    /\ Len(hist.inits) > 0
    /\ LastInit.ok
    /\ cctx.clCert = NoCert
    /\ cctx.subjectName = NoName
    /\ cctx.referenceValue # NoName

----------------------------------------------------------------------------
\* Session binding.  hist.msgs lists the messages of the session as the
\* client and the responder built them.

FromClient(i) == hist.msgs[i].from = "client"

\* C27: within one session every message the client sends (the request,
\* each PollReq, the certConf) carries a senderNonce that differs from the
\* senderNonce of every other message the client sent in that session.
C27_SenderNonceUnique ==
    \A i, j \in 1..Len(hist.msgs) :
        (i # j /\ FromClient(i) /\ FromClient(j)) =>
            /\ hist.msgs[i].senderNonce # NoNonce
            /\ hist.msgs[i].senderNonce # hist.msgs[j].senderNonce

\* the client has sent a request, two PollReq and a certConf
C27_Reached ==
    /\ Count("POLLREQ") = 2
    /\ Count("CERTCONF") = 1
    /\ Len(SelectSeq(hist.msgs, LAMBDA m : m.from = "client")) = 4

\* C28: all messages of one session, in both directions (request, PollReq
\* and PollRep, certificate response, certConf, PKICONF, ERROR responses),
\* carry the transactionID generated at session start.
C28_OneTransactionID ==
    \A i \in 1..Len(hist.msgs) :
        /\ hist.msgs[i].transactionID # NoTxid
        /\ hist.msgs[i].transactionID = hist.msgs[1].transactionID
        /\ ses.pc # "idle" => cctx.transactionID = hist.msgs[1].transactionID

\* a session with PollRep, certificate response and PKICONF, and one that
\* the responder answered by an ERROR message
C28_Reached ==
    /\ Len(hist.msgs) >= 6
    /\ hist.obs.rsp.type = "PKICONF"
    /\ \E i \in 1..Len(hist.msgs) : hist.msgs[i].type = "POLLREP"

C28_ReachedError ==
    /\ Len(hist.msgs) >= 4
    /\ hist.obs.rsp.type = "ERROR"
    /\ hist.msgs[Len(hist.msgs)].from = "responder"

----------------------------------------------------------------------------
\* init_header called again on the same context.

\* calls i and i + 1 of init_header both succeeded
TwoInits(i) ==
    /\ i + 1 <= Len(hist.inits)
    /\ hist.inits[i].ok
    /\ hist.inits[i + 1].ok

----------------------------------------------------------------------------
\* The implicitConfirm ITAV of a header.

\* number of implicitConfirm ITAVs in generalInfo
ImplicitConfirmCount(hdr) ==
    Len(SelectSeq(hdr.generalInfo, LAMBDA itav : itav = ImplicitConfirmITAV))

\* C30: check_implicitConfirm(hdr) is false on a header without the ITAV
\* and true after set_implicitConfirm(hdr); however often
\* set_implicitConfirm is called, generalInfo holds exactly one
\* implicitConfirm ITAV.
C30_ImplicitConfirmOnce ==
    /\ ImplicitConfirmCount(net) = 0 => ~ossl_cmp_hdr_check_implicitConfirm(net)
    /\ ses.sets = 0 => ~ossl_cmp_hdr_check_implicitConfirm(net)
    /\ ses.sets > 0 =>
          /\ ossl_cmp_hdr_check_implicitConfirm(net)
          /\ ImplicitConfirmCount(net) = 1
    /\ \A i \in 1..Len(hist.checks) :
          /\ hist.checks[i].after
          /\ hist.checks[i].before <=> i > 1

\* set_implicitConfirm was called more than once on a header that holds
\* another ITAV as well
C30_Reached ==
    /\ ses.sets > 1
    /\ Len(net.generalInfo) = 2
    /\ ossl_cmp_hdr_check_implicitConfirm(net)

----------------------------------------------------------------------------
\* The context at the end of a session.

\* C31 as stated: whenever a client session has reached a terminal state the
\* context no longer holds the transactionID or the recipNonce of that
\* session, while the identity material is unchanged; a following session
\* on the same context starts with a fresh transactionID and no recipNonce.
C31_TerminalClearsSession ==
    /\ Terminal =>
          /\ cctx.transactionID = NoTxid
          /\ cctx.recipNonce = NoNonce
          /\ cctx.oldCert = hist.cfg.oldCert
    /\ (hist.session > 1 /\ Len(hist.msgs) > 0) =>
          /\ hist.prevTxid = NoTxid \/ hist.msgs[1].transactionID # hist.prevTxid
          /\ hist.msgs[1].recipNonce = NoNonce

\* the part that holds: the options and the identity material of the
\* context are what they were when the session started
C31_IdentityKept ==
    Terminal =>
        /\ cctx.oldCert = hist.cfg.oldCert
        /\ cctx.popoMethod = hist.cfg.popoMethod
        /\ cctx.unprotectedSend = hist.cfg.unprotectedSend
        /\ cctx.unprotectedErrors = hist.cfg.unprotectedErrors

\* a second session on the same context carries the transactionID and
\* answers the last senderNonce of the first
C31_SecondSessionReuses ==
    /\ hist.session > 1
    /\ Len(hist.msgs) > 0
    /\ hist.prevTxid # NoTxid
    /\ hist.msgs[1].transactionID = hist.prevTxid
    /\ hist.msgs[1].recipNonce # NoNonce

\* a certificate request sequence has returned with a failure
CertSessionFailed == ses.kind \in CertReqTypes /\ ses.pc = "failed"

\* C32 as stated: whenever a certificate request session ends FAILED, at
\* whatever step the fault occurs, newCert of the context is absent and the
\* session returns no certificate.
C32_FailedLeavesNoCert ==
    CertSessionFailed =>
        /\ cctx.newClCert = NoCert
        /\ ses.result = NoCert

\* the part that holds: the failed call returns no certificate, and a
\* failure before or at the extraction of the certificate leaves newCert
\* as it was or absent
C32_FailedReturnsNoCert ==
    CertSessionFailed =>
        /\ ses.result = NoCert
        /\ Count("CERTCONF") = 0 => cctx.newClCert \in {NoCert, hist.cfg.newCert}

\* the certConf exchange failed after the certificate was extracted
C32_CertConfFailed ==
    /\ CertSessionFailed
    /\ hist.cfg.newCert = NoCert
    /\ Count("CERTCONF") = 1
    /\ cctx.newClCert # NoCert

(***************************************************************************)
(* PKIStatusInfo construction (ossl_cmp_statusinfo_new and the two         *)
(* set_statusInfo setters of the server contexts).  In SpecSI the variable *)
(* net holds the PKIStatusInfo built last and srv.pkiStatusOut and         *)
(* srv.failInfoOut hold the one stored in the server context.              *)
(***************************************************************************)
OSSL_CMP_PKIFAILUREINFO_badAlg == 0
OSSL_CMP_PKIFAILUREINFO_badRequest == 2
OSSL_CMP_PKIFAILUREINFO_signerNotTrusted == 20
OSSL_CMP_PKIFAILUREINFO_MAX == 26

\* bit b of the int fail_info:  (fail_info & (1 << b)) != 0
FailBit(fail_info, b) == (fail_info \div (2 ^ b)) % 2 = 1

\* the fail_info arguments tried: no bit, single bits, two bits, the highest
\* defined bit, and bits above OSSL_CMP_PKIFAILUREINFO_MAX
FailInfoCodes ==
    { 0,
      2 ^ OSSL_CMP_PKIFAILUREINFO_badAlg,
      2 ^ OSSL_CMP_PKIFAILUREINFO_badRequest,
      2 ^ OSSL_CMP_PKIFAILUREINFO_signerNotTrusted,
      2 ^ OSSL_CMP_PKIFAILUREINFO_signerNotTrusted + 2 ^ OSSL_CMP_PKIFAILUREINFO_badRequest,
      2 ^ OSSL_CMP_PKIFAILUREINFO_MAX,
      2 ^ (OSSL_CMP_PKIFAILUREINFO_MAX + 1),
      2 ^ (OSSL_CMP_PKIFAILUREINFO_MAX + 1) + 2 ^ OSSL_CMP_PKIFAILUREINFO_badAlg }

NoSI == [status |-> -1, failInfo |-> {}, built |-> FALSE]

ossl_cmp_statusinfo_new(status, fail_info) ==
    [ status   |-> status,
      failInfo |-> { failure \in 0..OSSL_CMP_PKIFAILUREINFO_MAX : FailBit(fail_info, failure) },
      built    |-> TRUE ]

InitSI ==
    /\ \E i \in Impls :
          /\ srv = [SrvCtxOf([Fixture EXCEPT !.impl = i]) EXCEPT !.pkiStatusOut = NoSI.status, !.failInfoOut = NoSI.failInfo]
          /\ hist = [cfg |-> [Fixture EXCEPT !.impl = i], nNonce |-> 0, set |-> FALSE]
    /\ cctx = ClientCtxOf(Fixture)
    /\ ses = [pc |-> "statusinfo"]
    /\ net = NoSI

\* a direct call of the constructor
StatusInfoNew ==
    /\ ses.pc = "statusinfo"
    /\ \E status \in 0..MaxStatus, fail_info \in FailInfoCodes :
          net' = ossl_cmp_statusinfo_new(status, fail_info)
    /\ UNCHANGED <<cctx, ses, srv, hist>>

\* OSSL_CMP_SRV_CTX_set_statusInfo / ossl_cmp_mock_srv_set_statusInfo
SetStatusInfo ==
    /\ ses.pc = "statusinfo"
    /\ \E status \in 0..MaxStatus, fail_info \in FailInfoCodes :
          LET si == ossl_cmp_statusinfo_new(status, fail_info)
          IN  srv' = [srv EXCEPT !.pkiStatusOut = si.status, !.failInfoOut = si.failInfo]
    /\ hist' = [hist EXCEPT !.set = TRUE]
    /\ UNCHANGED <<cctx, ses, net>>

NextSI ==
    \/ StatusInfoNew
    \/ SetStatusInfo

SpecSI == InitSI /\ [][NextSI]_vars

Granted == {OSSL_CMP_PKISTATUS_accepted, OSSL_CMP_PKISTATUS_grantedWithMods}

\* C33: every PKIStatusInfo built by ossl_cmp_statusinfo_new or stored by a
\* set_statusInfo setter has an empty failInfo whenever its status is
\* accepted or grantedWithMods.
C33_GrantedHasNoFailInfo ==
    /\ net.built /\ net.status \in Granted => net.failInfo = {}
    /\ hist.set /\ srv.pkiStatusOut \in Granted => srv.failInfoOut = {}

\* a certificate session that polled and ended successfully
PolledAndDone ==
    /\ ses.kind \in CertReqTypes
    /\ ses.pc = "done"
    /\ Count("POLLREQ") > 0

\* C34: after a certificate session that went through polling and ended
\* successfully, the PKIStatus stored in the client context is the status of
\* the final certificate response and not waiting.
C34_FinalStatusStored ==
    PolledAndDone => cctx.lastPKIStatus # OSSL_CMP_PKISTATUS_waiting

\* what the code does instead: the status of the first response stays
C34_FirstStatusKept ==
    PolledAndDone => cctx.lastPKIStatus = OSSL_CMP_PKISTATUS_waiting

\* the last request the responder took had no valid protection
UnprotectedRequest == hist.obs.n > 0 /\ hist.obs.req.prot # "valid"

\* the two exceptions under which such a request is let in
RequestException(s, req) ==
    \/ s.acceptUnprotectedRequests
    \/ req.type = "ERROR" /\ s.unprotectedErrors

C35_ReachedRefused ==
    /\ UnprotectedRequest
    /\ hist.obs.req.type = "POLLREQ"
    /\ hist.obs.req.prot = "invalid"
    /\ hist.obs.pre.certReq # NoMsg
    /\ hist.obs.err = "FAILED_TO_RECEIVE_PKIMESSAGE"

\* C36: pollCount of the responder is never negative: the setter refuses a
\* negative count with InvalidArgs and leaves pollCount as it was, and the
\* processing of a certificate request or a pollReq decrements pollCount
\* only when it is above 0.
C36_PollCountNeverNegative ==
    /\ srv.pollCount >= 0
    /\ hist.setPoll.called =>
          IF hist.setPoll.count < 0
          THEN /\ ~hist.setPoll.ok
               /\ hist.setPoll.err = "INVALID_ARGS"
               /\ hist.setPoll.post = hist.setPoll.pre
          ELSE hist.setPoll.ok /\ hist.setPoll.post = hist.setPoll.count
    /\ hist.obs.n > 0 =>
          /\ hist.obs.post.pollCount \in {hist.obs.pre.pollCount, hist.obs.pre.pollCount - 1}
          /\ hist.obs.post.pollCount < hist.obs.pre.pollCount => hist.obs.pre.pollCount > 0

\* the setter refused a negative count on a responder that held pollCount 1,
\* and the session after it polled down to 0 and was answered there
C36_Reached ==
    /\ hist.setPoll.called
    /\ hist.setPoll.count < 0
    /\ hist.setPoll.pre = 1
    /\ hist.obs.req.type = "POLLREQ"
    /\ hist.obs.pre.pollCount = 0
    /\ hist.obs.rsp.type \in CertRepTypes
    /\ srv.pollCount = 0

----------------------------------------------------------------------------
\* Termination of certificate sessions.  SpecLive runs one certificate
\* session over the polling configurations; the responder may announce any
\* checkAfter (AlterCheckAfter).  Every call of the client and of the
\* transfer callback returns, so a step that is possible is taken
\* eventually.

InitLive == Init /\ hist.cfg \in PollConfigs

NextLive ==
    \/ \E kind \in CertReqTypes : StartSession(kind)
    \/ RecvCertRep
    \/ RecvPollRep
    \/ RecvPKIconf
    \/ MockServerPerform
    \/ ServerPerform
    \/ AlterCheckAfter

SpecLive == InitLive /\ [][NextLive]_vars /\ WF_vars(NextLive)

\* every certificate session reaches DONE or FAILED
SessionsTerminate == <>Terminal

\* every PollRep handled so far announced a positive checkAfter
AllSleeping == \A i \in DOMAIN hist.polls : hist.polls[i].checkAfter >= 1

\* C37: every certificate session ends, and with totalTimeout > 0 the number
\* of PollReqs is bounded by the budget whatever the responder answers (one
\* PollReq before any PollRep, then at most one per second of the budget).
C37_PollsBoundedByBudget ==
    hist.cfg.maxPollTime > 0 => Count("POLLREQ") <= hist.cfg.maxPollTime + 1

\* the bound that holds: it takes PollReps that announce a positive time
PollsBoundedWhenSleeping ==
    hist.cfg.maxPollTime > 0 /\ AllSleeping =>
        Count("POLLREQ") <= hist.cfg.maxPollTime + 1

\* the responder took a pollReq while it retained no certificate request
PollWithoutRequest ==
    /\ hist.obs.n > 0
    /\ hist.obs.req.type = "POLLREQ"
    /\ hist.obs.pre.certReq = NoMsg

\* C38: a pollReq received while no certificate request is retained is not
\* answered with a PollRep or a certificate response: the processing fails
\* (the transfer hands back an ERROR message) and pollCount is unchanged.
C38_PollWithoutRequestFails ==
    PollWithoutRequest =>
        /\ hist.obs.rsp.type \notin {"POLLREP"} \cup CertRepTypes
        /\ hist.obs.rsp.type = "ERROR"
        /\ hist.obs.post.pollCount = hist.obs.pre.pollCount
        /\ hist.obs.post.certReq = NoMsg

\* the responder handed out the status waiting without retaining the
\* request, the client polled, and the pollReq passed the protection check
C38_Reached ==
    /\ PollWithoutRequest
    /\ Honest
    /\ ossl_cmp_msg_check_received(hist.obs.pre, hist.obs.req)
    /\ ~hist.obs.pre.sendError
    /\ hist.obs.pre.impl = "srv"

C38_ReachedMock ==
    /\ PollWithoutRequest
    /\ Honest
    /\ ossl_cmp_msg_check_received(hist.obs.pre, hist.obs.req)
    /\ ~hist.obs.pre.sendError
    /\ hist.obs.pre.impl = "mock"

\* the processing of the last request failed at the responder
ProcessingFailed ==
    /\ hist.obs.n > 0
    /\ LET r == IF hist.obs.pre.impl = "srv"
                THEN process_request(hist.obs.pre, hist.obs.req)
                ELSE eng_process_request(hist.obs.pre, hist.obs.req)
       IN  r.msg = NoMsg

\* the client has handled the response to that request
FailureHandled ==
    /\ ProcessingFailed
    /\ hist.rcv.n > 0
    /\ hist.rcv.req.senderNonce = hist.obs.req.senderNonce
    /\ hist.rcv.rep = hist.obs.rsp

\* C39: whenever the processing of a request fails at the responder, the
\* transfer still returns success and delivers an ERROR message with status
\* rejection and failInfo badRequest, so that the client session fails on the
\* body type and not on a transfer error.
C39_FailureFailsOnBodyType ==
    /\ ProcessingFailed =>
          /\ hist.obs.rsp.type = "ERROR"
          /\ hist.obs.rsp.status = OSSL_CMP_PKISTATUS_rejection
          /\ hist.obs.rsp.failInfo = "badRequest"
    /\ FailureHandled /\ Honest =>
          /\ ses.pc = "failed"
          /\ \E i \in DOMAIN ses.err : ses.err[i] = "PKIBODY_ERROR"

\* what holds: the ERROR message is delivered and the session fails in
\* send_receive_check, at the first of its checks that the message fails
FailureAnswered ==
    /\ ProcessingFailed =>
          /\ hist.obs.rsp.type = "ERROR"
          /\ hist.obs.rsp.status = OSSL_CMP_PKISTATUS_rejection
          /\ hist.obs.rsp.failInfo = "badRequest"
    /\ FailureHandled /\ Honest =>
          /\ ses.pc = "failed"
          /\ ~hist.rcv.ok
          /\ hist.rcv.rep.type = "ERROR"

\* the last response the client handled did not pass send_receive_check
ValidationFailed == hist.rcv.n > 0 /\ ~hist.rcv.ok

\* C40: when the validation of a received response fails, for whatever
\* reason, recipNonce of the client context is left as it was; it is updated
\* (to the senderNonce of the response) only after all checks have passed.
C40_RecipNonceKeptOnFailure ==
    hist.rcv.n > 0 =>
        IF hist.rcv.ok
        THEN cctx.recipNonce = hist.rcv.rep.senderNonce
        ELSE cctx.recipNonce = hist.rcv.ctx.recipNonce

\* a response that carried a new senderNonce failed the last of the checks
\* (the body type) while the context held the nonce of an earlier response
C40_Reached ==
    /\ ValidationFailed
    /\ hist.rcv.rep # NoMsg
    /\ hist.rcv.ctx.recipNonce # NoNonce
    /\ hist.rcv.rep.senderNonce # hist.rcv.ctx.recipNonce
    /\ \E i \in DOMAIN ses.err : ses.err[i] = "PKIBODY_ERROR"

\* failures of the earlier checks and of the transfer
C40_ReachedEachCheck ==
    /\ ValidationFailed
    /\ hist.rcv.rep # NoMsg
    /\ hist.rcv.rep.senderNonce # hist.rcv.ctx.recipNonce
    /\ \E i \in DOMAIN ses.err :
          ses.err[i] \in {"ERROR_VALIDATING_PROTECTION", "ERROR_NONCES_DO_NOT_MATCH",
                          "ERROR_TRANSACTIONID_UNMATCHED"}


====
